---- MODULE Spec2Model ----
(***************************************************************************)
(* A model of ruvola's session scheduler (src/model/voca_session.rs) and   *)
(* its data model (src/model/voca_card.rs): queue construction, the review *)
(* loop (next_card / skip_card), progress accounting and save.             *)
(*                                                                         *)
(* Indices held in queue items are 0-based as in the Rust code; TLA+       *)
(* sequences are 1-based, so an access `v[i]` of the code is `v[i + 1]`.   *)
(* Timestamps are integers (a count of clock units since the Unix epoch,   *)
(* negative before it); durations are integers in the same unit.           *)
(***************************************************************************)
EXTENDS Integers, Sequences, FiniteSets, TLC

(***************************************************************************)
(* Bounds of the model.                                                    *)
(***************************************************************************)
\* Interval ladders of length 1 .. MaxLadder are configured.
MaxLadder == 3
\* The wall clock advances at most this many units during the review loop.
MaxTicks == 1
\* A session takes at most this many next_card and skip_card calls.
MaxCalls == 3
\* Submitted answers have at most this many characters.
MaxAnswerLen == 3
\* The error tolerance is configured between 0 and this number.
MaxTolerance == 2

(***************************************************************************)
(* Option<T>                                                               *)
(***************************************************************************)
None == [is_some |-> FALSE]

Some(v) == [is_some |-> TRUE, value |-> v]

Min(a, b) == IF a <= b THEN a ELSE b

Max(a, b) == IF a >= b THEN a ELSE b

(***************************************************************************)
(* VocabMetadata and Vocab (voca_card.rs)                                  *)
(***************************************************************************)
\* DateTime::UNIX_EPOCH on the model's time axis.
UNIX_EPOCH == 0

VocabMetadata(deck, due_date, deck_reverse, due_date_reverse) ==
    [due_date |-> due_date, deck |-> deck,
     due_date_reverse |-> due_date_reverse, deck_reverse |-> deck_reverse]

\* Mutant: the default due dates lie one second before the epoch.
DefaultMetadataBeforeEpoch == VocabMetadata(0, UNIX_EPOCH - 2, 0, UNIX_EPOCH - 2)

DefaultMetadata == VocabMetadata(0, UNIX_EPOCH, 0, UNIX_EPOCH)

FilterModes == {"All", "Unseen", "Seen", "Normal"}

\* Mutants: Seen admits cards without metadata; a due date equal to the
\* current date is due; the reverse direction is decided by the forward date.
IsDueSeenAdmitsNew(card, reverse, filter_mode, current_date) ==
    CASE filter_mode = "All" -> TRUE
      [] filter_mode = "Unseen" -> ~card.metadata.is_some
      [] OTHER ->
           IF card.metadata.is_some
           THEN IF reverse
                THEN card.metadata.value.due_date_reverse < current_date
                ELSE card.metadata.value.due_date < current_date
           ELSE TRUE

IsDueAtOrBefore(card, reverse, filter_mode, current_date) ==
    CASE filter_mode = "All" -> TRUE
      [] filter_mode = "Unseen" -> ~card.metadata.is_some
      [] OTHER ->
           IF card.metadata.is_some
           THEN IF reverse
                THEN card.metadata.value.due_date_reverse <= current_date
                ELSE card.metadata.value.due_date <= current_date
           ELSE filter_mode = "Normal"

IsDueForwardOnly(card, reverse, filter_mode, current_date) ==
    CASE filter_mode = "All" -> TRUE
      [] filter_mode = "Unseen" -> ~card.metadata.is_some
      [] OTHER ->
           IF card.metadata.is_some
           THEN card.metadata.value.due_date < current_date
           ELSE filter_mode = "Normal"

IsDue(card, reverse, filter_mode, current_date) ==
    CASE filter_mode = "All" -> TRUE
      [] filter_mode = "Unseen" -> ~card.metadata.is_some
      [] OTHER ->
           IF card.metadata.is_some
           THEN IF reverse
                THEN card.metadata.value.due_date_reverse < current_date
                ELSE card.metadata.value.due_date < current_date
           ELSE filter_mode = "Normal"

\* ..self.metadata.clone().unwrap_or_default()
UnwrapOrDefault(metadata) ==
    IF metadata.is_some THEN metadata.value ELSE DefaultMetadata

\* Mutant: the two directions are taken for each other.
UpdateMetadataSwapped(card, deck, due_date, reverse) ==
    IF ~reverse
    THEN [card EXCEPT !.metadata =
            Some([UnwrapOrDefault(card.metadata) EXCEPT
                    !.deck_reverse = deck, !.due_date_reverse = due_date])]
    ELSE [card EXCEPT !.metadata =
            Some([UnwrapOrDefault(card.metadata) EXCEPT
                    !.deck = deck, !.due_date = due_date])]

\* Mutant: the deck and the due date are written to both directions.
UpdateMetadataBoth(card, deck, due_date, reverse) ==
    [card EXCEPT !.metadata = Some(VocabMetadata(deck, due_date, deck, due_date))]

UpdateMetadata(card, deck, due_date, reverse) ==
    IF reverse
    THEN [card EXCEPT !.metadata =
            Some([UnwrapOrDefault(card.metadata) EXCEPT
                    !.deck_reverse = deck, !.due_date_reverse = due_date])]
    ELSE [card EXCEPT !.metadata =
            Some([UnwrapOrDefault(card.metadata) EXCEPT
                    !.deck = deck, !.due_date = due_date])]

GetDeck(card, reverse) ==
    IF card.metadata.is_some
    THEN Some(IF reverse THEN card.metadata.value.deck_reverse
                         ELSE card.metadata.value.deck)
    ELSE None

UnwrapOr(opt, default) == IF opt.is_some THEN opt.value ELSE default

(***************************************************************************)
(* u8 arithmetic of the deck field                                         *)
(***************************************************************************)
U8Modulus == 256

\* `x as u8`
AsU8(x) == x % U8Modulus

\* `x as u8 - 1` and `x + 1` on u8: the wrapped value (a release build).
U8WrappingSub(a, b) == (a - b + U8Modulus) % U8Modulus

U8WrappingAdd(a, b) == (a + b) % U8Modulus

\* The same operations leave the u8 range (a build with overflow checks panics).
U8SubOverflows(a, b) == a - b < 0

U8AddOverflows(a, b) == a + b >= U8Modulus

(***************************************************************************)
(* VocabWord::from_str (voca_card.rs).  A text is a sequence of characters.*)
(***************************************************************************)
IsWhitespace(c) == c = " "

RECURSIVE TrimStart(_)
TrimStart(s) ==
    IF s # <<>> /\ IsWhitespace(Head(s)) THEN TrimStart(Tail(s)) ELSE s

RECURSIVE TrimEnd(_)
TrimEnd(s) ==
    IF s # <<>> /\ IsWhitespace(s[Len(s)])
    THEN TrimEnd(SubSeq(s, 1, Len(s) - 1))
    ELSE s

Trim(s) == TrimEnd(TrimStart(s))

\* s.split(sep): the segments between the separators (always at least one).
RECURSIVE SplitFrom(_, _, _)
SplitFrom(s, sep, cur) ==
    IF s = <<>> THEN <<cur>>
    ELSE IF Head(s) = sep
         THEN <<cur>> \o SplitFrom(Tail(s), sep, <<>>)
         ELSE SplitFrom(Tail(s), sep, Append(cur, Head(s)))

Split(s, sep) == SplitFrom(s, sep, <<>>)

Positions(s, c) == {i \in 1..Len(s) : s[i] = c}

SetMin(S) == CHOOSE x \in S : \A y \in S : x <= y

SetMax(S) == CHOOSE x \in S : \A y \in S : x >= y

\* BRACKET_REGEX = \(.*\) is greedy: its leftmost match runs from the first
\* "(" that has a ")" after it to the last ")" of the text.
BracketMatches(s) ==
    /\ Positions(s, "(") # {}
    /\ Positions(s, ")") # {}
    /\ SetMin(Positions(s, "(")) < SetMax(Positions(s, ")"))

\* BRACKET_REGEX.replace_all(s, ""): after the greedy match no ")" is left,
\* so there is at most one match to remove.
BracketReplaceAll(s) ==
    IF BracketMatches(s)
    THEN SubSeq(s, 1, SetMin(Positions(s, "(")) - 1)
         \o SubSeq(s, SetMax(Positions(s, ")")) + 1, Len(s))
    ELSE s

RECURSIVE MapTrim(_)
MapTrim(segs) ==
    IF segs = <<>> THEN <<>> ELSE <<Trim(Head(segs))>> \o MapTrim(Tail(segs))

RECURSIVE BracketVariants(_)
BracketVariants(variants) ==
    IF variants = <<>> THEN <<>>
    ELSE (IF BracketMatches(Head(variants))
          THEN <<Trim(BracketReplaceAll(Head(variants)))>>
          ELSE <<>>)
         \o BracketVariants(Tail(variants))

VocabWordFromStr(s) ==
    LET comma_split == Split(s, ",")
        variants == IF Len(comma_split) > 1
                    THEN <<s>> \o MapTrim(comma_split)
                    ELSE <<s>>
    IN [base |-> s, variants |-> variants \o BracketVariants(variants)]

Vocab(word_a, word_b, metadata) ==
    [word_a |-> VocabWordFromStr(word_a),
     word_b |-> VocabWordFromStr(word_b),
     metadata |-> metadata]

VocaCardDataset(cards, file_path, lang_a, lang_b) ==
    [cards |-> cards, file_path |-> file_path, lang_a |-> lang_a, lang_b |-> lang_b]

(***************************************************************************)
(* VocabTask::is_correct (voca_session.rs)                                 *)
(***************************************************************************)
VocabTask(query, answer, answer_variants, show_answer) ==
    [query |-> query, answer |-> answer, answer_variants |-> answer_variants,
     show_answer |-> show_answer]

ValidationConfig(error_tolerance, tolerance_min_length) ==
    [error_tolerance |-> error_tolerance,
     tolerance_min_length |-> tolerance_min_length]

DefaultValidationConfig == ValidationConfig(2, 5)

\* The characters of the model that are not ASCII: UTF-8 encodes each of them
\* in two bytes.
TwoByteChars == {"U+00E9"}

\* String::len(): the length of the text in bytes.
RECURSIVE Utf8Len(_)
Utf8Len(s) ==
    IF s = <<>> THEN 0
    ELSE (IF Head(s) \in TwoByteChars THEN 2 ELSE 1) + Utf8Len(Tail(s))

\* edit_distance::edit_distance(a, b): the Levenshtein distance of the two
\* texts, counted in characters.
RECURSIVE EditDistance(_, _)
EditDistance(a, b) ==
    IF a = <<>> THEN Len(b)
    ELSE IF b = <<>> THEN Len(a)
    ELSE IF Head(a) = Head(b) THEN EditDistance(Tail(a), Tail(b))
    ELSE 1 + Min(EditDistance(Tail(a), Tail(b)),
                 Min(EditDistance(Tail(a), b), EditDistance(a, Tail(b))))

\* The loop over answer_variants, returning at the first variant that matches.
RECURSIVE IsCorrect(_, _, _)
IsCorrect(answer_variants, answer, val_config_) ==
    IF answer_variants = <<>> THEN FALSE
    ELSE LET variant == Head(answer_variants) IN
         IF Utf8Len(variant) < val_config_.tolerance_min_length
         THEN IF answer = variant THEN TRUE
              ELSE IsCorrect(Tail(answer_variants), answer, val_config_)
         ELSE IF EditDistance(variant, answer) <= val_config_.error_tolerance
              THEN TRUE
              ELSE IsCorrect(Tail(answer_variants), answer, val_config_)

(***************************************************************************)
(* The session (voca_session.rs) and its environment                       *)
(***************************************************************************)
VARIABLES
    datasets,        \* VocaSession.datasets: Vec<VocaCardDataset>
    queue,           \* VocaSession.queue: VecDeque<VocabItem>
    has_changes,     \* VocaSession.has_changes
    total_due,       \* VocaSession.total_due
    deck_intervals,  \* DeckConfig.deck_intervals, handed to every next_card
    now,             \* the wall clock read by chrono::Local::now()
    files,           \* the dataset files, by dataset: file_path -> lines
    overflow_checks, \* whether the build panics on integer overflow
    pc,              \* "loaded", "review", "quit" or "panicked"
    args,            \* the arguments of VocaSession::new (command line, config)
    last,            \* the last call on the session and its arguments
    initial,         \* the session as VocaSession::new returned it
    calls,           \* the number of next_card and skip_card calls so far
    val_config,      \* ValidationConfig, handed to every is_correct
    shown,           \* what current_task returned since the last change of
                     \* the queue, and whether it was called again since
    verdict,         \* the last answer submitted to the shown task and what
                     \* is_correct returned for it
    load,            \* what from_files did: the files it opened, its error
    deck_config      \* the deck_intervals entries of the configuration file
                     \* and the error of reading them

vars == <<datasets, queue, has_changes, total_due, deck_intervals, now, files,
          overflow_checks, pc, args, last, initial, calls, val_config, shown,
          verdict, load, deck_config>>

\* Mutant: the dataset index and the card index are taken for each other.
VocabItemSwapped(dataset, card, reverse, memorization_card) ==
    [dataset |-> card, card |-> dataset, reverse |-> reverse,
     memorization_card |-> memorization_card]

VocabItem(dataset, card, reverse, memorization_card) ==
    [dataset |-> dataset, card |-> card, reverse |-> reverse,
     memorization_card |-> memorization_card]

MemorizationConfig(do_memorization_round, memorization_reversed) ==
    [do_memorization_round |-> do_memorization_round,
     memorization_reversed |-> memorization_reversed]

\* self.datasets[item.dataset].cards[item.card]
CardAt(ds, dataset, card) == ds[dataset + 1].cards[card + 1]

\* The indices are in range: the accesses above do not panic.
ValidIndex(ds, item) ==
    /\ item.dataset < Len(ds)
    /\ item.card < Len(ds[item.dataset + 1].cards)

(***************************************************************************)
(* VocaSession::new                                                        *)
(***************************************************************************)
\* datasets.iter().enumerate().flat_map(... cards.iter().enumerate() ...)
RECURSIVE CardIndices(_, _, _)
CardIndices(ds, i, j) ==
    IF i >= Len(ds) THEN <<>>
    ELSE IF j >= Len(ds[i + 1].cards) THEN CardIndices(ds, i + 1, 0)
         ELSE <<[i |-> i, j |-> j]>> \o CardIndices(ds, i, j + 1)

AllVocabs(ds) == CardIndices(ds, 0, 0)

\* Mutant: equal keys count as Greater, so equal cards change places.
SortGreaterOrEqual(a, b) ==
    IF a.is_some
    THEN IF b.is_some THEN a.value.due_date >= b.value.due_date ELSE TRUE
    ELSE ~b.is_some

\* The comparator of sort_by answers Greater for (a, b).
SortGreater(a, b) ==
    IF a.is_some
    THEN IF b.is_some THEN a.value.due_date > b.value.due_date ELSE TRUE
    ELSE FALSE

\* sort_by is stable: an element goes behind every element that is not
\* Greater than it.
RECURSIVE SortInsert(_, _, _)
SortInsert(ds, sorted, x) ==
    IF sorted = <<>> THEN <<x>>
    ELSE IF SortGreater(CardAt(ds, Head(sorted).i, Head(sorted).j).metadata,
                        CardAt(ds, x.i, x.j).metadata)
         THEN <<x>> \o sorted
         ELSE <<Head(sorted)>> \o SortInsert(ds, Tail(sorted), x)

RECURSIVE SortBy(_, _, _)
SortBy(ds, done, rest) ==
    IF rest = <<>> THEN done
    ELSE SortBy(ds, SortInsert(ds, done, Head(rest)), Tail(rest))

\* The loop over all_vocabs, with its three sub-queues and its card counter.
RECURSIVE Partition(_, _, _, _, _, _, _, _, _)
Partition(ds, vocabs, filter_mode, limit, memorization_config, current_date, acc, num_cards, k) ==
    IF k > Len(vocabs) THEN acc
    ELSE IF limit.is_some /\ num_cards >= limit.value THEN acc
    ELSE
      LET i == vocabs[k].i
          j == vocabs[k].j
          card == CardAt(ds, i, j)
          add_to_queue == IsDue(card, FALSE, filter_mode, current_date)
          add_to_queue_reverse == IsDue(card, TRUE, filter_mode, current_date)
          card_used == add_to_queue \/ add_to_queue_reverse
          unseen == IF /\ ~card.metadata.is_some
                       /\ memorization_config.do_memorization_round
                       /\ card_used
                    THEN Append(acc.queue_unseen,
                                VocabItem(i, j,
                                    memorization_config.memorization_reversed, TRUE))
                    ELSE acc.queue_unseen
          seen == IF add_to_queue
                  THEN Append(acc.queue_seen, VocabItem(i, j, FALSE, FALSE))
                  ELSE acc.queue_seen
          rev == IF add_to_queue_reverse
                 THEN Append(acc.queue_reverse, VocabItem(i, j, TRUE, FALSE))
                 ELSE acc.queue_reverse
      IN Partition(ds, vocabs, filter_mode, limit, memorization_config,
                   current_date,
                   [queue_unseen |-> unseen, queue_seen |-> seen,
                    queue_reverse |-> rev],
                   IF card_used THEN num_cards + 1 ELSE num_cards, k + 1)

\* Mutant: the limit is not applied.
NewQueueUnlimited(ds, filter_mode, sorted, limit, memorization_config, current_date) ==
    LET all_vocabs == IF sorted THEN SortBy(ds, <<>>, AllVocabs(ds))
                                ELSE AllVocabs(ds)
        parts == Partition(ds, all_vocabs, filter_mode, None,
                           memorization_config, current_date,
                           [queue_unseen |-> <<>>, queue_seen |-> <<>>,
                            queue_reverse |-> <<>>], 0, 1)
    IN parts.queue_unseen \o parts.queue_seen \o parts.queue_reverse

\* Mutant: the memorization sub-queue is merged last.
NewQueueGradedFirst(ds, filter_mode, sorted, limit, memorization_config, current_date) ==
    LET all_vocabs == IF sorted THEN SortBy(ds, <<>>, AllVocabs(ds))
                                ELSE AllVocabs(ds)
        parts == Partition(ds, all_vocabs, filter_mode, limit,
                           memorization_config, current_date,
                           [queue_unseen |-> <<>>, queue_seen |-> <<>>,
                            queue_reverse |-> <<>>], 0, 1)
    IN parts.queue_seen \o parts.queue_reverse \o parts.queue_unseen

\* Mutant: the reverse sub-queue is merged ahead of the forward one.
NewQueueReverseFirst(ds, filter_mode, sorted, limit, memorization_config, current_date) ==
    LET all_vocabs == IF sorted THEN SortBy(ds, <<>>, AllVocabs(ds))
                                ELSE AllVocabs(ds)
        parts == Partition(ds, all_vocabs, filter_mode, limit,
                           memorization_config, current_date,
                           [queue_unseen |-> <<>>, queue_seen |-> <<>>,
                            queue_reverse |-> <<>>], 0, 1)
    IN parts.queue_unseen \o parts.queue_reverse \o parts.queue_seen

\* Mutant: the memorization sub-queue is left out.
NewQueueGradedOnly(ds, filter_mode, sorted, limit, memorization_config, current_date) ==
    LET all_vocabs == IF sorted THEN SortBy(ds, <<>>, AllVocabs(ds))
                                ELSE AllVocabs(ds)
        parts == Partition(ds, all_vocabs, filter_mode, limit,
                           memorization_config, current_date,
                           [queue_unseen |-> <<>>, queue_seen |-> <<>>,
                            queue_reverse |-> <<>>], 0, 1)
    IN parts.queue_seen \o parts.queue_reverse

\* Mutant: every memorization item is queued twice.
NewQueueMemorizationTwice(ds, filter_mode, sorted, limit, memorization_config, current_date) ==
    LET all_vocabs == IF sorted THEN SortBy(ds, <<>>, AllVocabs(ds))
                                ELSE AllVocabs(ds)
        parts == Partition(ds, all_vocabs, filter_mode, limit,
                           memorization_config, current_date,
                           [queue_unseen |-> <<>>, queue_seen |-> <<>>,
                            queue_reverse |-> <<>>], 0, 1)
    IN parts.queue_unseen \o parts.queue_unseen \o parts.queue_seen
          \o parts.queue_reverse

\* The queue VocaSession::new builds.
NewQueue(ds, filter_mode, sorted, limit, memorization_config, current_date) ==
    LET all_vocabs == IF sorted THEN SortBy(ds, <<>>, AllVocabs(ds))
                                ELSE AllVocabs(ds)
        parts == Partition(ds, all_vocabs, filter_mode, limit,
                           memorization_config, current_date,
                           [queue_unseen |-> <<>>, queue_seen |-> <<>>,
                            queue_reverse |-> <<>>], 0, 1)
    IN parts.queue_unseen \o parts.queue_seen \o parts.queue_reverse

(***************************************************************************)
(* The dataset files (VocaSession::save writes them)                       *)
(***************************************************************************)
\* chrono's sub-second precision: clock units per second.  Timestamps are
\* written with "%Y-%m-%d %H:%M:%S", which drops the fraction of a second.
TicksPerSecond == 2

\* The text of a timestamp, represented by the whole second it names.
FormatTimestamp(t) == [seconds |-> t \div TicksPerSecond]

\* The decimal text of a deck number.
RECURSIVE FormatNumber(_)
FormatNumber(n) ==
    IF n < 10 THEN <<n>> ELSE Append(FormatNumber(n \div 10), n % 10)

\* Mutant: the metadata is not written.
CardLineWordsOnly(card) == <<card.word_a.base, card.word_b.base>>

\* One line of a dataset file: its tab-separated fields.
CardLine(card) ==
    IF card.metadata.is_some
    THEN <<card.word_a.base, card.word_b.base,
           FormatNumber(card.metadata.value.deck),
           FormatTimestamp(card.metadata.value.due_date),
           FormatNumber(card.metadata.value.deck_reverse),
           FormatTimestamp(card.metadata.value.due_date_reverse)>>
    ELSE <<card.word_a.base, card.word_b.base>>

RECURSIVE CardLines(_)
CardLines(cards) ==
    IF cards = <<>> THEN <<>>
    ELSE <<CardLine(Head(cards))>> \o CardLines(Tail(cards))

\* Everything save writes to the file of one dataset.
FileLines(dataset) ==
    <<(<<dataset.lang_a, dataset.lang_b>>)>> \o CardLines(dataset.cards)

(***************************************************************************)
(* Loading a dataset file (voca_card.rs).  A file is the sequence of its   *)
(* lines, a line the sequence of its tab-separated fields, as split('\t')  *)
(* yields them; a deck field is the sequence of its decimal digits.        *)
(***************************************************************************)
\* Result<T, E>
Ok(v) == [is_ok |-> TRUE, value |-> v]

Err(e) == [is_ok |-> FALSE, error |-> e]

RECURSIVE DigitsValue(_)
DigitsValue(text) ==
    IF text = <<>> THEN 0
    ELSE 10 * DigitsValue(SubSeq(text, 1, Len(text) - 1)) + text[Len(text)]

\* deck.parse::<u8>(): any run of decimal digits whose value fits a u8,
\* leading zeros included.
ParseU8(text) ==
    IF /\ text # <<>>
       /\ \A k \in 1..Len(text) : text[k] \in 0..9
       /\ DigitsValue(text) < U8Modulus
    THEN Some(DigitsValue(text))
    ELSE None

\* NaiveDateTime::parse_from_str(date_str, "%Y-%m-%d %H:%M:%S"): the instant
\* at the start of the second the text names.  The text of a timestamp is a
\* record: [seconds |-> s] when it names a second, [garbled |-> ...] else.
\* A text that names no second does not parse.
ParseTimestamp(text) ==
    IF "seconds" \in DOMAIN text
    THEN Some(text.seconds * TicksPerSecond)
    ELSE None

\* Vocab::from_line
FromLine(line) ==
    IF Len(line) < 1 THEN Err("Missing word A")
    ELSE IF Len(line) < 2 THEN Err("Missing word B")
    ELSE IF Len(line) < 3 THEN Ok(Vocab(line[1], line[2], None))
    ELSE IF ~ParseU8(line[3]).is_some THEN Err("Invalid deck")
    ELSE IF Len(line) < 4 THEN Err("Missing due date")
    ELSE IF ~ParseTimestamp(line[4]).is_some THEN Err("Invalid due date")
    ELSE IF Len(line) < 5 THEN Err("Missing deck")
    ELSE IF ~ParseU8(line[5]).is_some THEN Err("Invalid deck")
    ELSE IF Len(line) < 6 THEN Err("Missing due date")
    ELSE IF ~ParseTimestamp(line[6]).is_some THEN Err("Invalid due date")
    ELSE Ok(Vocab(line[1], line[2],
                  Some(VocabMetadata(ParseU8(line[3]).value,
                                     ParseTimestamp(line[4]).value,
                                     ParseU8(line[5]).value,
                                     ParseTimestamp(line[6]).value))))

\* line.trim().is_empty(): the tab is whitespace too.
IsBlankLine(line) == \A k \in 1..Len(line) : Trim(line[k]) = <<>>

InvalidFormat(filename, line, reason) ==
    [kind |-> "InvalidFormat", filename |-> filename, line |-> line,
     reason |-> reason]

EmptyFile(filename) == [kind |-> "EmptyFile", filename |-> filename]

\* Mutant: an error carries the number of the card, blank lines not counted.
RECURSIVE FromLinesCountingCards(_, _, _, _)
FromLinesCountingCards(file_path, lines, i, cards) ==
    IF i + 2 > Len(lines) THEN Ok(cards)
    ELSE IF IsBlankLine(lines[i + 2])
         THEN FromLinesCountingCards(file_path, lines, i + 1, cards)
         ELSE IF FromLine(lines[i + 2]).is_ok
              THEN FromLinesCountingCards(file_path, lines, i + 1,
                             Append(cards, FromLine(lines[i + 2]).value))
              ELSE Err(InvalidFormat(file_path, Len(cards) + 2,
                                     FromLine(lines[i + 2]).error))

\* The loop over the lines behind the header; `i` is the index enumerate()
\* gives the line.
RECURSIVE FromLines(_, _, _, _)
FromLines(file_path, lines, i, cards) ==
    IF i + 2 > Len(lines) THEN Ok(cards)
    ELSE IF IsBlankLine(lines[i + 2])
         THEN FromLines(file_path, lines, i + 1, cards)
         ELSE IF FromLine(lines[i + 2]).is_ok
              THEN FromLines(file_path, lines, i + 1,
                             Append(cards, FromLine(lines[i + 2]).value))
              ELSE Err(InvalidFormat(file_path, i + 2,
                                     FromLine(lines[i + 2]).error))

\* VocaCardDataset::from_file on a file that can be read.
FromFile(file_path, lines) ==
    IF lines = <<>> THEN Err(EmptyFile(file_path))
    ELSE LET header == lines[1] IN
         IF Len(header) < 1
         THEN Err(InvalidFormat(file_path, 1, "Invalid Header"))
         ELSE IF Len(header) < 2
         THEN Err(InvalidFormat(file_path, 1, "Expected second column"))
         ELSE LET cards == FromLines(file_path, lines, 0, <<>>) IN
              IF cards.is_ok
              THEN Ok(VocaCardDataset(cards.value, file_path,
                                      header[1], header[2]))
              ELSE cards

\* Mutant: a file that fails to load is left out, the others are loaded.
RECURSIVE CollectFilesSkipping(_, _, _, _)
CollectFilesSkipping(file_paths, contents, k, loaded) ==
    IF k > Len(file_paths) THEN Ok(loaded)
    ELSE IF FromFile(file_paths[k], contents[k]).is_ok
         THEN CollectFilesSkipping(file_paths, contents, k + 1,
                           Append(loaded, FromFile(file_paths[k], contents[k]).value))
         ELSE CollectFilesSkipping(file_paths, contents, k + 1, loaded)

\* file_paths.iter().map(from_file).collect::<Result<Vec<_>, _>>(): the
\* datasets in argument order, or the first error.
RECURSIVE CollectFiles(_, _, _, _)
CollectFiles(file_paths, contents, k, loaded) ==
    IF k > Len(file_paths) THEN Ok(loaded)
    ELSE IF FromFile(file_paths[k], contents[k]).is_ok
         THEN CollectFiles(file_paths, contents, k + 1,
                           Append(loaded, FromFile(file_paths[k], contents[k]).value))
         ELSE FromFile(file_paths[k], contents[k])

(***************************************************************************)
(* Initial states: datasets as loaded, the configuration, the clock        *)
(***************************************************************************)
\* Deck numbers a file may hold (any u8): the ends of the range, and numbers
\* inside and beyond the configured ladders.
DeckValues == {0, 1, MaxLadder + 1, U8Modulus - 1}

\* Due timestamps of the files (whole seconds).
DueValues == {1 * TicksPerSecond, 2 * TicksPerSecond, 4 * TicksPerSecond}

\* The clock when the session is constructed: between two whole seconds, or
\* on a whole second that is a due timestamp of the files.
StartTimes == {2 * TicksPerSecond, 3 * TicksPerSecond - 1}

MetadataValues ==
    {None} \cup
    {Some(VocabMetadata(d, t, dr, tr)) :
        d \in DeckValues, t \in DueValues, dr \in DeckValues, tr \in DueValues}

\* The interval ladder of length n: 0, 1, 2, ... seconds.
Ladder(n) == [k \in 1..n |-> (k - 1) * TicksPerSecond]

\* The empty ladder is left out: on it every graded answer fails.
Ladders == {Ladder(n) : n \in 1..MaxLadder}

Limits == {None} \cup {Some(l) : l \in 0..2}

ArgsValues ==
    [filter_mode : FilterModes, sorted : BOOLEAN, limit : Limits,
     memorization_config : [do_memorization_round : BOOLEAN,
                            memorization_reversed : BOOLEAN]]

NoItem == None

Call(op, answer_correct, item, current_deck) ==
    [op |-> op, answer_correct |-> answer_correct, item |-> item,
     current_deck |-> current_deck]

\* No configuration file: nothing to read, no error.
NoDeckConfig == [deck_intervals |-> <<>>, error |-> None]

NoSession ==
    [queue |-> <<>>, datasets |-> <<>>, current_date |-> 0, files |-> <<>>]

\* The paths handed to from_files, in argument order.
FilePaths == <<"a.tsv", "b.tsv">>

\* The datasets from_files loads from the files, when every file loads.
InitWith(file_values, args_values, ladders, start_times) ==
    /\ files \in file_values
    /\ LET loaded == CollectFiles(SubSeq(FilePaths, 1, Len(files)), files,
                                  1, <<>>)
       IN /\ loaded.is_ok
          /\ datasets = loaded.value
    /\ args \in args_values
    /\ deck_intervals \in ladders
    /\ now \in start_times
    /\ overflow_checks \in BOOLEAN
    /\ queue = <<>>
    /\ has_changes = FALSE
    /\ total_due = 0
    /\ pc = "loaded"
    /\ last = Call("from_file", FALSE, NoItem, 0)
    /\ initial = NoSession
    /\ calls = 0
    /\ shown = None
    /\ verdict = None
    /\ load = Some([opened |-> Len(files), error |-> None])
    /\ deck_config = NoDeckConfig

\* The program has not started yet: the files are on disk, no session.
InitStartWith(file_values, args_values, ladders, start_times) ==
    /\ files \in file_values
    /\ datasets = <<>>
    /\ args \in args_values
    /\ deck_intervals \in ladders
    /\ now \in start_times
    /\ overflow_checks \in BOOLEAN
    /\ queue = <<>>
    /\ has_changes = FALSE
    /\ total_due = 0
    /\ pc = "start"
    /\ last = Call("start", FALSE, NoItem, 0)
    /\ initial = NoSession
    /\ calls = 0
    /\ shown = None
    /\ verdict = None
    /\ load = None
    /\ deck_config = NoDeckConfig

(***************************************************************************)
(* The operations                                                          *)
(***************************************************************************)
\* Mutant: the cards of the queue are counted, not its items.
TotalDueCards(q) ==
    Cardinality({<<q[k].dataset, q[k].card>> : k \in 1..Len(q)})

\* let total_due = queue_unseen.len()
TotalDue(q) == Len(q)

\* VocaSession::new, called once on the loaded datasets.
New ==
    /\ pc = "loaded"
    /\ queue' = NewQueue(datasets, args.filter_mode, args.sorted, args.limit,
                         args.memorization_config, now)
    /\ has_changes' = FALSE
    /\ total_due' = TotalDue(queue')
    /\ pc' = "review"
    /\ last' = Call("new", FALSE, NoItem, 0)
    /\ initial' = [queue |-> queue', datasets |-> datasets,
                   current_date |-> now, files |-> files]
    /\ shown' = None
    /\ verdict' = None
    /\ UNCHANGED <<datasets, deck_intervals, now, files, overflow_checks, args,
                   calls, val_config,
                   load, deck_config>>

\* The number of paths from_file is called on: the iterator stops at the
\* first error.
RECURSIVE OpenedFiles(_, _, _)
OpenedFiles(file_paths, contents, k) ==
    IF k > Len(file_paths) THEN Len(file_paths)
    ELSE IF FromFile(file_paths[k], contents[k]).is_ok
         THEN OpenedFiles(file_paths, contents, k + 1)
         ELSE k

\* VocaSession::from_files when the program starts, for the first time or
\* again after it quit: the files are loaded and the session is constructed,
\* or the first error is returned and there is no session.
FromFiles ==
    /\ pc \in {"start", "quit"}
    /\ LET file_paths == SubSeq(FilePaths, 1, Len(files))
           loaded == CollectFiles(file_paths, files, 1, <<>>)
       IN IF loaded.is_ok
          THEN /\ datasets' = loaded.value
               /\ queue' = NewQueue(loaded.value, args.filter_mode, args.sorted,
                                    args.limit, args.memorization_config, now)
               /\ total_due' = TotalDue(queue')
               /\ initial' = [queue |-> queue', datasets |-> loaded.value,
                              current_date |-> now, files |-> files]
               /\ load' = Some([opened |-> OpenedFiles(file_paths, files, 1),
                                error |-> None])
               /\ pc' = "review"
          ELSE /\ datasets' = <<>>
               /\ queue' = <<>>
               /\ total_due' = 0
               /\ initial' = NoSession
               /\ load' = Some([opened |-> OpenedFiles(file_paths, files, 1),
                                error |-> Some(loaded.error)])
               /\ pc' = "load_failed"
    /\ has_changes' = FALSE
    /\ last' = Call("from_files", FALSE, NoItem, 0)
    /\ shown' = None
    /\ verdict' = None
    /\ UNCHANGED <<deck_intervals, now, files, overflow_checks, args, calls,
                   val_config, deck_config>>

\* The card of one item replaced.
SetCard(ds, item, card) ==
    [ds EXCEPT ![item.dataset + 1].cards[item.card + 1] = card]

\* Mutant: the metadata is left as it was.
SetMetadataKept(ds, item, metadata) == ds

\* card.metadata = metadata
SetMetadata(ds, item, metadata) ==
    SetCard(ds, item, [CardAt(ds, item.dataset, item.card) EXCEPT
                          !.metadata = metadata])

\* self.queue.pop_front() on a queue that is not empty: what is left.
PopFront(q) == Tail(q)

\* Mutants: the item is not enqueued again; is enqueued twice; is put back
\* at the front.
PushBackDropped(q, item) == q

PushBackTwice(q, item) == Append(Append(q, item), item)

PushFront(q, item) == <<item>> \o q

\* Mutant: the item is enqueued ahead of the last item.
PushBackSecondLast(q, item) ==
    IF q = <<>> THEN <<item>>
    ELSE Append(Append(SubSeq(q, 1, Len(q) - 1), item), q[Len(q)])

\* self.queue.push_back(item)
PushBack(q, item) == Append(q, item)

\* Mutant: the exposure does not mark the session changed.
ExposeMemorizationUnflagged(item) ==
    /\ datasets' = SetMetadata(datasets, item, Some(DefaultMetadata))
    /\ UNCHANGED has_changes

\* Mutant: only an answer counts as an exposure, a skip leaves the card new.
ExposeMemorizationAnswered(item) ==
    /\ datasets' = IF last'.op = "skip_card" THEN datasets
                   ELSE SetMetadata(datasets, item, Some(DefaultMetadata))
    /\ has_changes' = TRUE

\* A memorization item leaves the queue: the card becomes seen.
ExposeMemorization(item) ==
    /\ datasets' = SetMetadata(datasets, item, Some(DefaultMetadata))
    /\ has_changes' = TRUE

\* The call panics with the front item popped; nothing runs after it.
Panic ==
    /\ pc' = "panicked"
    /\ queue' = PopFront(queue)
    /\ UNCHANGED <<datasets, has_changes>>

\* Mutant: a skip on an empty queue marks the session changed.
SkipCardFlagsEmpty ==
    /\ pc = "review"
    /\ calls < MaxCalls
    /\ IF queue = <<>>
       THEN /\ last' = Call("skip_card", FALSE, NoItem, 0)
            /\ has_changes' = TRUE
            /\ UNCHANGED <<queue, datasets, pc>>
       ELSE LET index == Head(queue) IN
            /\ last' = Call("skip_card", FALSE, Some(index), 0)
            /\ IF ~index.memorization_card
               THEN /\ queue' = PushBack(PopFront(queue), index)
                    /\ UNCHANGED <<datasets, has_changes, pc>>
               ELSE IF ~ValidIndex(datasets, index)
               THEN Panic
               ELSE /\ queue' = PopFront(queue)
                    /\ ExposeMemorization(index)
                    /\ UNCHANGED pc
    /\ calls' = calls + 1
    /\ shown' = None
    /\ verdict' = None
    /\ UNCHANGED <<total_due, deck_intervals, now, files, overflow_checks, args,
                   initial, val_config,
                   load, deck_config>>

SkipCard ==
    /\ pc = "review"
    /\ calls < MaxCalls
    /\ IF queue = <<>>
       THEN /\ last' = Call("skip_card", FALSE, NoItem, 0)
            /\ UNCHANGED <<queue, datasets, has_changes, pc>>
       ELSE LET index == Head(queue) IN
            /\ last' = Call("skip_card", FALSE, Some(index), 0)
            /\ IF ~index.memorization_card
               THEN /\ queue' = PushBack(PopFront(queue), index)
                    /\ UNCHANGED <<datasets, has_changes, pc>>
               ELSE IF ~ValidIndex(datasets, index)
               THEN Panic
               ELSE /\ queue' = PopFront(queue)
                    /\ ExposeMemorization(index)
                    /\ UNCHANGED pc
    /\ calls' = calls + 1
    /\ shown' = None
    /\ verdict' = None
    /\ UNCHANGED <<total_due, deck_intervals, now, files, overflow_checks, args,
                   initial, val_config,
                   load, deck_config>>

\* (current_deck + 1).min(deck_durations.len() as u8 - 1), wrapped.
NewDeckCorrect(current_deck, len) ==
    Min(U8WrappingAdd(current_deck, 1), U8WrappingSub(AsU8(len), 1))

\* One of the two u8 operations above overflows.
CorrectOverflows(current_deck, len) ==
    U8AddOverflows(current_deck, 1) \/ U8SubOverflows(AsU8(len), 1)

\* (current_deck as i16 - 1).max(0) as u8
NewDeckIncorrect(current_deck) == AsU8(Max(current_deck - 1, 0))

NewDeck(answer_correct, current_deck, len) ==
    IF answer_correct THEN NewDeckCorrect(current_deck, len)
                      ELSE NewDeckIncorrect(current_deck)

\* deck_durations[new_deck as usize] is out of range, or the arithmetic
\* overflowed in a build that checks it.
GradedPanics(answer_correct, current_deck, len) ==
    \/ answer_correct /\ overflow_checks /\ CorrectOverflows(current_deck, len)
    \/ NewDeck(answer_correct, current_deck, len) >= len

\* Mutant: a graded answer does not mark the session changed.
NextCardUnflagged(answer_correct) ==
    /\ pc = "review"
    /\ calls < MaxCalls
    /\ IF queue = <<>>
       THEN /\ last' = Call("next_card", answer_correct, NoItem, 0)
            /\ UNCHANGED <<queue, datasets, has_changes, pc>>
       ELSE LET current_item == Head(queue)
                deck_durations == deck_intervals
            IN
            IF ~ValidIndex(datasets, current_item)
            THEN /\ last' = Call("next_card", answer_correct, Some(current_item), 0)
                 /\ Panic
            ELSE
            LET card == CardAt(datasets, current_item.dataset, current_item.card)
                current_deck == UnwrapOr(GetDeck(card, current_item.reverse), 0)
                new_deck == NewDeck(answer_correct, current_deck,
                                    Len(deck_durations))
            IN
            /\ last' = Call("next_card", answer_correct, Some(current_item),
                            current_deck)
            /\ IF current_item.memorization_card
               THEN /\ queue' = PopFront(queue)
                    /\ ExposeMemorization(current_item)
                    /\ UNCHANGED pc
               ELSE IF GradedPanics(answer_correct, current_deck,
                                    Len(deck_durations))
               THEN Panic
               ELSE /\ datasets' =
                         SetCard(datasets, current_item,
                                 UpdateMetadata(card, new_deck,
                                     now + deck_durations[new_deck + 1],
                                     current_item.reverse))
                    /\ queue' = IF answer_correct
                                THEN PopFront(queue)
                                ELSE PushBack(PopFront(queue), current_item)
                    /\ UNCHANGED <<has_changes, pc>>
    /\ calls' = calls + 1
    /\ shown' = None
    /\ verdict' = None
    /\ UNCHANGED <<total_due, deck_intervals, now, files, overflow_checks, args,
                   initial, val_config,
                   load, deck_config>>

NextCard(answer_correct) ==
    /\ pc = "review"
    /\ calls < MaxCalls
    /\ IF queue = <<>>
       THEN /\ last' = Call("next_card", answer_correct, NoItem, 0)
            /\ UNCHANGED <<queue, datasets, has_changes, pc>>
       ELSE LET current_item == Head(queue)
                deck_durations == deck_intervals
            IN
            IF ~ValidIndex(datasets, current_item)
            THEN /\ last' = Call("next_card", answer_correct, Some(current_item), 0)
                 /\ Panic
            ELSE
            LET card == CardAt(datasets, current_item.dataset, current_item.card)
                current_deck == UnwrapOr(GetDeck(card, current_item.reverse), 0)
                new_deck == NewDeck(answer_correct, current_deck,
                                    Len(deck_durations))
            IN
            /\ last' = Call("next_card", answer_correct, Some(current_item),
                            current_deck)
            /\ IF current_item.memorization_card
               THEN /\ queue' = PopFront(queue)
                    /\ ExposeMemorization(current_item)
                    /\ UNCHANGED pc
               ELSE IF GradedPanics(answer_correct, current_deck,
                                    Len(deck_durations))
               THEN Panic
               ELSE /\ datasets' =
                         SetCard(datasets, current_item,
                                 UpdateMetadata(card, new_deck,
                                     now + deck_durations[new_deck + 1],
                                     current_item.reverse))
                    /\ queue' = IF answer_correct
                                THEN PopFront(queue)
                                ELSE PushBack(PopFront(queue), current_item)
                    /\ has_changes' = TRUE
                    /\ UNCHANGED pc
    /\ calls' = calls + 1
    /\ shown' = None
    /\ verdict' = None
    /\ UNCHANGED <<total_due, deck_intervals, now, files, overflow_checks, args,
                   initial, val_config,
                   load, deck_config>>

\* Mutant: the task is built as for a forward item, whatever the direction.
FrontTaskForward(q, ds) ==
    IF q = <<>> THEN None
    ELSE LET index == Head(q) IN
         IF ~ValidIndex(ds, index) THEN None
         ELSE LET card == CardAt(ds, index.dataset, index.card)
              IN Some(VocabTask(card.word_a.base, card.word_b.base,
                                card.word_b.variants, index.memorization_card))

\* self.queue.front().and_then(...): the task of the front item.
FrontTask(q, ds) ==
    IF q = <<>> THEN None
    ELSE LET index == Head(q) IN
         IF ~ValidIndex(ds, index) THEN None
         ELSE LET card == CardAt(ds, index.dataset, index.card)
                  query == IF index.reverse THEN card.word_b ELSE card.word_a
                  answer == IF index.reverse THEN card.word_a ELSE card.word_b
              IN Some(VocabTask(query.base, answer.base, answer.variants,
                                index.memorization_card))

\* VocaSession::current_target_lang
CurrentTargetLang(q, ds) ==
    IF q = <<>> THEN None
    ELSE LET index == Head(q) IN
         IF index.dataset >= Len(ds) THEN None
         ELSE Some(IF index.reverse THEN ds[index.dataset + 1].lang_a
                                    ELSE ds[index.dataset + 1].lang_b)

\* Mutant: the peek takes the front item off the queue.
CurrentTaskPops ==
    /\ pc = "review"
    /\ shown' = Some([task |-> FrontTask(queue, datasets),
                      repeated |-> shown.is_some])
    /\ queue' = IF queue = <<>> THEN queue ELSE PopFront(queue)
    /\ UNCHANGED <<datasets, has_changes, total_due, deck_intervals, now,
                   files, overflow_checks, pc, args, last, initial, calls,
                   val_config, verdict,
                   load, deck_config>>

\* VocaSession::current_task
CurrentTask ==
    /\ pc = "review"
    /\ shown' = Some([task |-> FrontTask(queue, datasets),
                      repeated |-> shown.is_some])
    /\ UNCHANGED <<datasets, queue, has_changes, total_due, deck_intervals, now,
                   files, overflow_checks, pc, args, last, initial, calls,
                   val_config, verdict,
                   load, deck_config>>

\* task.is_correct(answer, &val_config) on the task current_task returned.
SubmitAnswer(answer) ==
    /\ pc = "review"
    /\ shown.is_some
    /\ shown.value.task.is_some
    /\ verdict' = Some([answer |-> answer,
                        is_correct |->
                            IsCorrect(shown.value.task.value.answer_variants,
                                      answer, val_config)])
    /\ UNCHANGED <<datasets, queue, has_changes, total_due, deck_intervals, now,
                   files, overflow_checks, pc, args, last, initial, calls,
                   val_config, shown,
                   load, deck_config>>

\* self.total_tasks()
TotalTasks == total_due

\* self.total_tasks() - self.queue.len(), on usize
CurrentProgress == TotalTasks - Len(queue)

\* What a failing write leaves of the file of one dataset: the old file when
\* File::create failed, else a file cut after some of the lines.
FailedWrites(dataset, old) ==
    {old} \cup {SubSeq(FileLines(dataset), 1, n) : n \in 0..Len(dataset.cards)}

\* Mutant: the loop goes on to the next datasets after a failed write.
WrittenFilesPastError(ds, old, failed, cut) ==
    [k \in 1..Len(ds) |-> IF k = failed THEN cut ELSE FileLines(ds[k])]

\* The files after the loop of save: the datasets before the failing one are
\* written, the failing one is left as the failed write leaves it, the ones
\* behind it are not reached.
WrittenFiles(ds, old, failed, cut) ==
    [k \in 1..Len(ds) |->
        IF failed = 0 \/ k < failed
        THEN FileLines(ds[k])
        ELSE IF k = failed THEN cut ELSE old[k]]

\* VocaSession::save with its first I/O error at dataset `failed` (0: none).
\* The caller saves on its way out (main.rs: Quit { save }).
Save ==
    /\ pc = "review"
    /\ \E failed \in 0..Len(datasets) :
         /\ last' = Call(IF failed = 0 THEN "save_ok" ELSE "save_err",
                         FALSE, NoItem, 0)
         /\ \E cut \in IF failed = 0 THEN {<<>>}
                       ELSE FailedWrites(datasets[failed], files[failed]) :
              files' = WrittenFiles(datasets, files, failed, cut)
    /\ pc' = "quit"
    /\ UNCHANGED <<datasets, queue, has_changes, total_due, deck_intervals, now,
                   overflow_checks, args, initial, calls, val_config, shown,
                   verdict,
                   load, deck_config>>

\* The wall clock advances between two calls on the session.
ClockEnd == SetMax(StartTimes) + MaxTicks

Tick ==
    /\ pc = "review"
    /\ now < ClockEnd
    /\ now' = now + 1
    /\ UNCHANGED <<datasets, queue, has_changes, total_due, deck_intervals,
                   files, overflow_checks, pc, args, last, initial, calls,
                   val_config, shown, verdict,
                   load, deck_config>>

Next ==
    \/ New
    \/ \E answer_correct \in BOOLEAN : NextCard(answer_correct)
    \/ SkipCard
    \/ Save
    \/ Tick

(***************************************************************************)
(* The review loop on two datasets                                         *)
(***************************************************************************)
\* The decks of a loaded card, forward and reverse: inside the ladders, beyond
\* them, and at the end of the u8 range.
ReviewDecks ==
    {<<0, 1>>, <<1, 0>>, <<MaxLadder + 1, U8Modulus - 1>>,
     <<U8Modulus - 1, MaxLadder + 1>>}

\* The metadata fields of the card of a.tsv: the card is new, or was due
\* forward and is not yet due in reverse.
ReviewMetadata ==
    {<<>>} \cup
    {<<FormatNumber(d[1]), [seconds |-> 2], FormatNumber(d[2]), [seconds |-> 4]>> :
        d \in ReviewDecks}

\* a.tsv as the program writes it; b.tsv written by hand, its forward deck
\* with a leading zero.
ReviewFiles ==
    {<< <<(<<"en", "es">>), <<(<<"c", "a", "t">>), <<"g", "a", "t", "o">>>> \o m1>>,
        <<(<<"en", "fr">>), <<(<<"d", "o", "g">>), <<"c", "h", "i", "e", "n">>>> \o m2>> >> :
        m1 \in ReviewMetadata,
        m2 \in {<<>>, <<(<<0, 1>>), [seconds |-> 2], <<0>>, [seconds |-> 2]>>}}

ReviewArgs ==
    [filter_mode : {"All", "Normal"}, sorted : {FALSE}, limit : {None},
     memorization_config :
        {MemorizationConfig(FALSE, FALSE), MemorizationConfig(TRUE, FALSE),
         MemorizationConfig(TRUE, TRUE)}]

ReviewStartTimes == {3 * TicksPerSecond - 1}

Init ==
    /\ InitWith(ReviewFiles, ReviewArgs, Ladders, ReviewStartTimes)
    /\ val_config = DefaultValidationConfig

Spec == Init /\ [][Next]_vars

(***************************************************************************)
(* Answering: current_task and is_correct on one dataset                   *)
(***************************************************************************)
\* The words asked for: shorter and longer ones, one with a comma, one with a
\* character that is not ASCII, one with a bracket.
AnswerTargets ==
    {<<"a", "b">>, <<"a", "b", "a">>, <<"a", ",", "b", "b", "b">>,
     <<"a", "U+00E9">>, <<"b", "(", "a", ")">>}

AnswerFiles ==
    {<< <<(<<"en", "fr">>), <<(<<"x">>), w>>, <<(<<"y">>), <<"b", "b">>>> >> >> :
        w \in AnswerTargets}

AnswerArgs ==
    [filter_mode : {"All", "Seen"}, sorted : {FALSE}, limit : {None},
     memorization_config :
        {MemorizationConfig(FALSE, FALSE), MemorizationConfig(TRUE, FALSE)}]

ValidationConfigs ==
    {ValidationConfig(e, m) : e \in 0..MaxTolerance, m \in {0, 3, 6}}

\* The texts over {a, b} of a given length.
RECURSIVE TextsOfLen(_)
TextsOfLen(n) ==
    IF n = 0 THEN {<<>>}
    ELSE {Append(t, c) : t \in TextsOfLen(n - 1), c \in {"a", "b"}}

\* What the user types: short texts, and the targets themselves and a target
\* typed without its accent.
Answers ==
    UNION {TextsOfLen(n) : n \in 0..MaxAnswerLen}
        \cup AnswerTargets \cup {<<"a", "e">>, <<"x">>}

InitAnswer ==
    /\ InitWith(AnswerFiles, AnswerArgs, {Ladder(MaxLadder)}, ReviewStartTimes)
    /\ val_config \in ValidationConfigs

NextAnswer ==
    \/ New
    \/ CurrentTask
    \/ \E answer \in Answers : SubmitAnswer(answer)
    \/ SkipCard

SpecAnswer == InitAnswer /\ [][NextAnswer]_vars

(***************************************************************************)
(* Construction: VocaSession::new on three cards in two datasets           *)
(***************************************************************************)
\* The metadata fields of a card: a new card, or one whose due timestamps
\* lie before, at and after the whole second of StartTimes.
NewMetadata ==
    {<<>>} \cup
    {<<(<<1>>), [seconds |-> t], <<1>>, [seconds |-> tr]>> :
        t \in {1, 2, 4}, tr \in {2, 4}}

NewFiles ==
    {<< <<(<<"en", "es">>), <<(<<"a">>), <<"x">>>> \o m1,
                            <<(<<"b">>), <<"y">>>> \o m2>>,
        <<(<<"en", "fr">>), <<(<<"c">>), <<"z">>>> \o m3>> >> :
        m1 \in NewMetadata, m2 \in NewMetadata, m3 \in NewMetadata}

InitNew ==
    /\ InitWith(NewFiles, ArgsValues, {Ladder(MaxLadder)}, StartTimes)
    /\ val_config = DefaultValidationConfig

NextNew == New

SpecNew == InitNew /\ [][NextNew]_vars

(***************************************************************************)
(* Loading: from_files on two files, well formed or not                    *)
(***************************************************************************)
\* The header, its fields written as texts like those of a card.
LoadHeader == <<(<<"e", "n">>), <<"e", "s">>>>

\* An empty line and a line of one space.
BlankLines == {<<(<<>>)>>, <<(<<" ">>)>>}

\* A new card and a card with metadata.
LoadCard == <<(<<"a">>), <<"x">>>>

LoadSeenCard ==
    <<(<<"b">>), <<"y">>, <<1>>, [seconds |-> 1], <<0>>, [seconds |-> 2]>>

\* Lines from_line rejects: a field is missing, a deck is no u8, a timestamp
\* names no second.
BadLines ==
    {<<(<<"a">>)>>,
     LoadCard \o <<(<<2, 5, 6>>), [seconds |-> 1], <<0>>, [seconds |-> 2]>>,
     LoadCard \o <<(<<1>>)>>,
     LoadCard \o <<(<<1>>), [garbled |-> "soon"], <<0>>, [seconds |-> 2]>>,
     LoadCard \o <<(<<1>>), [seconds |-> 1]>>,
     LoadCard \o <<(<<1>>), [seconds |-> 1], <<>>, [seconds |-> 2]>>,
     LoadCard \o <<(<<1>>), [seconds |-> 1], <<0>>>>,
     LoadCard \o <<(<<1>>), [seconds |-> 1], <<0>>, [garbled |-> "soon"]>>}

\* The contents of a file: well formed (with blank lines, with fields beyond
\* those read); without lines; with a header of one field; with a blank line
\* before the header; with a line that is rejected, behind blank lines or not.
LoadFileValues ==
    {<<LoadHeader, LoadCard, LoadSeenCard>>,
     <<LoadHeader, <<(<<>>)>>, LoadSeenCard, <<(<<" ">>)>>, LoadCard>>,
     <<LoadHeader \o <<(<<"l", "a">>)>>, LoadSeenCard \o <<(<<"note">>)>>>>,
     <<>>,
     <<(<<(<<"e", "n">>)>>), LoadCard>>,
     <<(<<(<<>>)>>), LoadHeader, LoadCard>>}
    \cup {<<LoadHeader, bad>> : bad \in BadLines}
    \cup {<<LoadHeader, LoadCard, blank, bad>> :
             blank \in BlankLines, bad \in BadLines}

LoadFiles == {<<a, b>> : a \in LoadFileValues, b \in LoadFileValues}

LoadArgs ==
    [filter_mode : {"All"}, sorted : {FALSE}, limit : {None},
     memorization_config : {MemorizationConfig(TRUE, FALSE)}]

InitLoad ==
    /\ InitStartWith(LoadFiles, LoadArgs, {Ladder(MaxLadder)}, ReviewStartTimes)
    /\ val_config = DefaultValidationConfig

NextLoad == FromFiles

SpecLoad == InitLoad /\ [][NextLoad]_vars

(***************************************************************************)
(* Words: from_files on one file of one card, over every text of a word    *)
(***************************************************************************)
MaxWordLen == 5

WordChars == {"a", ",", "(", ")", " "}

WordTexts ==
    UNION {[1..n -> WordChars] : n \in 0..MaxWordLen}

\* A word of two parenthesized segments with a letter in each.
LongWords == {<<"(", "a", ")", "a", "(", "a", ")">>}

\* One file, its header and one card; a card line is not blank.
WordFiles ==
    {<<(<<LoadHeader, <<w, <<"x">>>>>>)>> :
        w \in {t \in WordTexts \cup LongWords : Trim(t) # <<>>}}

InitWord ==
    /\ InitStartWith(WordFiles, LoadArgs, {Ladder(MaxLadder)}, {TicksPerSecond})
    /\ val_config = DefaultValidationConfig

NextWord == FromFiles

SpecWord == InitWord /\ [][NextWord]_vars

(***************************************************************************)
(* The deck intervals of the configuration file (config.rs)                *)
(***************************************************************************)
MaxConfigLen == 4

\* The text of an interval is a sequence of characters.
DigitChars == {"0", "1", "2", "3", "4", "5", "6", "7", "8", "9"}

Digits10 == <<"0", "1", "2", "3", "4", "5", "6", "7", "8", "9">>

DigitOf(c) == (CHOOSE k \in 1..10 : Digits10[k] = c) - 1

RECURSIVE NumberValue(_)
NumberValue(number) ==
    IF number = <<>> THEN 0
    ELSE 10 * NumberValue(SubSeq(number, 1, Len(number) - 1))
         + DigitOf(number[Len(number)])

RECURSIVE StripZeros(_)
StripZeros(number) ==
    IF number # <<>> /\ Head(number) = "0" THEN StripZeros(Tail(number))
    ELSE number

\* u32::MAX = 4294967295, digit by digit.
U32MaxDigits == <<4, 2, 9, 4, 9, 6, 7, 2, 9, 5>>

\* The number of 10 digits is greater than u32::MAX.
RECURSIVE ExceedsU32Max(_, _)
ExceedsU32Max(number, k) ==
    IF k > 10 THEN FALSE
    ELSE IF DigitOf(number[k]) # U32MaxDigits[k]
         THEN DigitOf(number[k]) > U32MaxDigits[k]
         ELSE ExceedsU32Max(number, k + 1)

\* str::parse::<u32>() on a nonempty run of decimal digits: leading zeros
\* are read, a value beyond 32 bits is an error.
ParseU32(number) ==
    IF \/ Len(StripZeros(number)) > 10
       \/ Len(StripZeros(number)) = 10 /\ ExceedsU32Max(StripZeros(number), 1)
    THEN None
    ELSE Some(NumberValue(number))

SecondTicks == TicksPerSecond

MinuteTicks == 60 * SecondTicks

HourTicks == 60 * MinuteTicks

DayTicks == 24 * HourTicks

UnitChars == {"d", "h", "m", "s"}

\* Mutant: minutes are taken for hours.
UnitTicksMinutesAsHours(c) ==
    CASE c = "d" -> DayTicks
      [] c = "h" -> HourTicks
      [] c = "m" -> HourTicks
      [] c = "s" -> SecondTicks

\* Duration::days(1), ::hours(1), ::minutes(1), ::seconds(1)
UnitTicks(c) ==
    CASE c = "d" -> DayTicks
      [] c = "h" -> HourTicks
      [] c = "m" -> MinuteTicks
      [] c = "s" -> SecondTicks

\* The loop of parse_complex_duration over the characters that are left.
RECURSIVE ParseComplexLoop(_, _, _)
ParseComplexLoop(rest, current_duration, current_number) ==
    IF rest = <<>>
    THEN (IF current_number = <<>> THEN Ok(current_duration)
          ELSE Err("InvalidFormat"))
    ELSE IF Head(rest) \in DigitChars
    THEN ParseComplexLoop(Tail(rest), current_duration,
                          Append(current_number, Head(rest)))
    ELSE IF current_number = <<>> THEN Err("ExpectedDigit")
    ELSE IF ~ParseU32(current_number).is_some THEN Err("InvalidNumber")
    ELSE IF Head(rest) \notin UnitChars THEN Err("InvalidUnit")
    ELSE ParseComplexLoop(Tail(rest),
                          current_duration
                            + ParseU32(current_number).value * UnitTicks(Head(rest)),
                          <<>>)

ParseComplexDuration(complex) == ParseComplexLoop(complex, 0, <<>>)

\* DeckIntervalSer
Days(days) == [kind |-> "Days", days |-> days]

Complex(text) == [kind |-> "Complex", text |-> text]

\* impl TryFrom<DeckIntervalSer> for DeckInverval
TryFromDeckIntervalSer(value) ==
    IF value.kind = "Days" THEN Ok(value.days * DayTicks)
    ELSE ParseComplexDuration(value.text)

\* Deserializing deck_config.deck_intervals: the entries are converted in
\* order, and the first that fails fails the configuration.
ParseDeckConfig ==
    /\ pc = "config"
    /\ LET raw == deck_config.deck_intervals
           Failing == {k \in 1..Len(raw) : ~TryFromDeckIntervalSer(raw[k]).is_ok}
       IN IF Failing = {}
          THEN /\ deck_intervals' =
                     [k \in 1..Len(raw) |-> TryFromDeckIntervalSer(raw[k]).value]
               /\ deck_config' = deck_config
               /\ pc' = "start"
          ELSE /\ deck_intervals' = <<>>
               /\ deck_config' =
                     [deck_config EXCEPT !.error =
                         Some(TryFromDeckIntervalSer(raw[SetMin(Failing)]).error)]
               /\ pc' = "config_failed"
    /\ UNCHANGED <<datasets, queue, has_changes, total_due, now, files,
                   overflow_checks, args, last, initial, calls, val_config,
                   shown, verdict, load>>

\* The characters of the texts: two digits, the units, a letter that is no
\* unit.
ConfigChars == {"0", "1", "d", "h", "m", "s", "x"}

ConfigTexts == UNION {[1..n -> ConfigChars] : n \in 0..MaxConfigLen}

\* Texts with a number of ten digits: u32::MAX + 1, and a number that is
\* below it only by its leading zero.
LongConfigTexts ==
    {<<"4", "2", "9", "4", "9", "6", "7", "2", "9", "6", "s">>,
     <<"1", "d", "4", "2", "9", "4", "9", "6", "7", "2", "9", "6", "s">>,
     <<"0", "0", "0", "0", "0", "0", "0", "0", "0", "0", "1", "1", "m">>}

\* A configuration of one entry, or of two entries the first of which is a
\* day count.
DeckConfigs ==
    {<<Complex(t)>> : t \in ConfigTexts \cup LongConfigTexts}
    \cup {<<Days(n)>> : n \in 0..2}
    \cup {<<Days(0), Complex(t)>> :
             t \in {<<"1", "h", "1", "0", "m">>, <<"1">>, <<"h">>, <<"1", "x">>}}

InitConfig ==
    /\ deck_config \in [deck_intervals : DeckConfigs, error : {None}]
    /\ files = <<>>
    /\ datasets = <<>>
    /\ args \in LoadArgs
    /\ deck_intervals = <<>>
    /\ now = TicksPerSecond
    /\ overflow_checks \in BOOLEAN
    /\ queue = <<>>
    /\ has_changes = FALSE
    /\ total_due = 0
    /\ pc = "config"
    /\ last = Call("start", FALSE, NoItem, 0)
    /\ initial = NoSession
    /\ calls = 0
    /\ shown = None
    /\ verdict = None
    /\ load = None
    /\ val_config = DefaultValidationConfig

NextConfig == ParseDeckConfig

SpecConfig == InitConfig /\ [][NextConfig]_vars

(***************************************************************************)
(* Sessions one after the other: review, save and quit, start again        *)
(***************************************************************************)
\* One file of two cards: both were never reviewed, or the first one holds
\* default metadata as save writes it.
RestartFiles ==
    {<<(<<(<<"en", "es">>),
          <<(<<"c", "a", "t">>), <<"g", "a", "t", "o">>>> \o m,
          <<(<<"s", "u", "n">>), <<"s", "o", "l">>>>>>)>> :
        m \in {<<>>, <<(<<0>>), [seconds |-> 0], <<0>>, [seconds |-> 0]>>}}

RestartArgs ==
    [filter_mode : FilterModes, sorted : {FALSE}, limit : {None},
     memorization_config :
        {MemorizationConfig(FALSE, FALSE), MemorizationConfig(TRUE, FALSE),
         MemorizationConfig(TRUE, TRUE)}]

\* The clock of the machine: before the epoch, at the epoch, after it.
RestartStartTimes == {UNIX_EPOCH - 1, UNIX_EPOCH, UNIX_EPOCH + 1}

InitRestart ==
    /\ InitStartWith(RestartFiles, RestartArgs, {Ladder(MaxLadder)},
                     RestartStartTimes)
    /\ val_config = DefaultValidationConfig

NextRestart ==
    \/ FromFiles
    \/ \E answer_correct \in BOOLEAN : NextCard(answer_correct)
    \/ SkipCard
    \/ Save

SpecRestart == InitRestart /\ [][NextRestart]_vars

(***************************************************************************)
(* The deck arithmetic: one card at every deck a file can give it, on      *)
(* ladders up to and beyond the range of a u8                              *)
(***************************************************************************)
\* The lengths of the ladders: short ones, and those around 2^8.
DeckLadderLengths ==
    {1, 2, U8Modulus - 1, U8Modulus, U8Modulus + 1}

\* One file of one card, its forward deck anywhere in the range of a u8.
DeckFiles ==
    {<<(<<(<<"en", "es">>),
          <<(<<"c", "a", "t">>), <<"g", "a", "t", "o">>,
            FormatNumber(c), [seconds |-> 1], <<0>>, [seconds |-> 1]>>>>)>> :
        c \in 0..(U8Modulus - 1)}

DeckArgs ==
    [filter_mode : {"All"}, sorted : {FALSE}, limit : {None},
     memorization_config : {MemorizationConfig(FALSE, FALSE)}]

InitDeck ==
    /\ InitWith(DeckFiles, DeckArgs, {Ladder(n) : n \in DeckLadderLengths},
                ReviewStartTimes)
    /\ val_config = DefaultValidationConfig

NextDeck ==
    \/ New
    \/ \E answer_correct \in BOOLEAN : NextCard(answer_correct)

SpecDeck == InitDeck /\ [][NextDeck]_vars

(***************************************************************************)
(* One review pass to its end: the user answers, hesitates, answers again  *)
(***************************************************************************)
\* One file of one card: never reviewed, reviewed and due in both
\* directions, or due with its forward deck at the end of the u8 range.
PassFiles ==
    {<<(<<(<<"en", "es">>), <<(<<"c", "a", "t">>), <<"g", "a", "t", "o">>>> \o m>>)>> :
        m \in {<<>>,
               <<(<<0>>), [seconds |-> 1], <<1>>, [seconds |-> 1]>>,
               <<FormatNumber(U8Modulus - 1), [seconds |-> 1], <<0>>, [seconds |-> 1]>>}}

PassArgs ==
    [filter_mode : {"All", "Normal"}, sorted : {FALSE}, limit : {None},
     memorization_config :
        {MemorizationConfig(FALSE, FALSE), MemorizationConfig(TRUE, FALSE),
         MemorizationConfig(TRUE, TRUE)}]

InitPass ==
    /\ InitWith(PassFiles, PassArgs, Ladders, ReviewStartTimes)
    /\ val_config = DefaultValidationConfig

\* The user skips or answers wrongly only finitely often: a call is made only
\* when the calls left after it suffice to answer every queued item.
Patient == calls' + Len(queue') <= MaxCalls

NextPass ==
    \/ New
    \/ \E answer_correct \in BOOLEAN : NextCard(answer_correct) /\ Patient
    \/ SkipCard /\ Patient

\* The session is constructed once the files are loaded, and the user goes
\* on answering: whatever is at the front is eventually answered correctly.
SpecPass ==
    /\ InitPass
    /\ [][NextPass]_vars
    /\ WF_vars(New)
    /\ WF_vars(NextCard(TRUE) /\ Patient)

(***************************************************************************)
(* Vocabulary of the properties                                            *)
(***************************************************************************)
\* The front item is graded, resp. a memorization item.
GradedFront == queue # <<>> /\ ~Head(queue).memorization_card

MemorizationFront == queue # <<>> /\ Head(queue).memorization_card

\* The last call was next_card / skip_card, it popped an item of that kind and
\* it returned (a call that panics ends the program: pc = "panicked").
LastPopped(op, memorization_card) ==
    /\ pc = "review"
    /\ last.op = op
    /\ last.item.is_some
    /\ last.item.value.memorization_card = memorization_card

\* The deck index of the direction the item asks for.
ItemDeck(item) ==
    GetDeck(CardAt(datasets, item.dataset, item.card), item.reverse)

\* A step of next_card or skip_card, resp. one that returns.
SomeNextCard == \E answer_correct \in BOOLEAN : NextCard(answer_correct)

Returns == pc' = "review"

(***************************************************************************)
(* C1  After next_card(true) on a graded front item the deck index of the  *)
(* item's direction is at most N - 1, and after next_card(false) it is at  *)
(* least 0, for every ladder of length N >= 1.                             *)
(***************************************************************************)
C1_DeckWithinLadder ==
    (LastPopped("next_card", FALSE) /\ Len(deck_intervals) >= 1) =>
        /\ ItemDeck(last.item.value).is_some
        /\ last.answer_correct =>
             ItemDeck(last.item.value).value <= Len(deck_intervals) - 1
        /\ ~last.answer_correct => ItemDeck(last.item.value).value >= 0

\* A correct answer on a deck at or beyond the top of the ladder was clamped.
C1_Witness ==
    /\ LastPopped("next_card", FALSE)
    /\ last.answer_correct
    /\ Len(deck_intervals) >= 2
    /\ last.current_deck >= Len(deck_intervals) - 1
    /\ ItemDeck(last.item.value) = Some(Len(deck_intervals) - 1)

(***************************************************************************)
(* C2  On a graded front item next_card(false) leaves queue.len() and      *)
(* current_progress() unchanged; next_card(true) takes one off queue.len() *)
(* and adds one to current_progress().                                     *)
(***************************************************************************)
C2_GradedAnswerCounts ==
    [][\A answer_correct \in BOOLEAN :
         (GradedFront /\ NextCard(answer_correct) /\ Returns) =>
            IF answer_correct
            THEN /\ Len(queue') = Len(queue) - 1
                 /\ CurrentProgress' = CurrentProgress + 1
            ELSE /\ Len(queue') = Len(queue)
                 /\ CurrentProgress' = CurrentProgress]_vars

\* An incorrect graded answer after an item was retired: progress stays 1.
C2_Witness ==
    /\ LastPopped("next_card", FALSE)
    /\ ~last.answer_correct
    /\ CurrentProgress = 1
    /\ Len(queue) >= 2

(***************************************************************************)
(* C3  On a memorization front item next_card (either answer) and          *)
(* skip_card remove the item without re-enqueueing it, and the card then   *)
(* holds the default metadata (deck 0 in both directions).                 *)
(***************************************************************************)
C3_MemorizationExposure ==
    [][(MemorizationFront /\ (SomeNextCard \/ SkipCard)) =>
          /\ queue' = Tail(queue)
          /\ CardAt(datasets', Head(queue).dataset, Head(queue).card).metadata
                = Some(VocabMetadata(0, UNIX_EPOCH, 0, UNIX_EPOCH))]_vars

\* A memorization item was skipped and another one is now at the front.
C3_Witness ==
    /\ LastPopped("skip_card", TRUE)
    /\ MemorizationFront
    /\ ItemDeck(last.item.value) = Some(0)
    /\ last.item.value \notin {queue[k] : k \in 1..Len(queue)}

(***************************************************************************)
(* C4  No sequence of calls on the constructed session fails at run time   *)
(* (no out-of-range access to the queue, the datasets, the cards or the    *)
(* interval ladder), whatever decks the files hold and whatever the        *)
(* ladder.                                                                 *)
(***************************************************************************)
C4_NoRuntimeFailure == pc # "panicked"

(***************************************************************************)
(* C5  Every item of the queue refers to a dataset of the session and to a *)
(* card of that dataset.                                                   *)
(***************************************************************************)
C5_QueueIndicesValid ==
    \A k \in 1..Len(queue) : ValidIndex(datasets, queue[k])

\* After a call, items of both datasets are queued.
C5_Witness ==
    /\ pc = "review"
    /\ calls >= 1
    /\ \E k \in 1..Len(queue) : queue[k].dataset = 0
    /\ \E k \in 1..Len(queue) : queue[k].dataset = Len(datasets) - 1

(***************************************************************************)
(* C6  Every memorization item of the queue precedes every graded item, so *)
(* the front item is never graded while a memorization item is queued.     *)
(***************************************************************************)
C6_MemorizationFirst ==
    \A k \in 1..Len(queue) : \A l \in 1..Len(queue) :
        (k < l /\ queue[l].memorization_card) => queue[k].memorization_card

\* After a call a memorization item is still queued, ahead of graded items.
C6_Witness ==
    /\ pc = "review"
    /\ calls >= 1
    /\ MemorizationFront
    /\ \E k \in 1..Len(queue) : ~queue[k].memorization_card

(***************************************************************************)
(* C7  has_changes is false when the session is constructed, every call    *)
(* that changes the metadata of a card sets it, and once set it stays set  *)
(* across next_card, skip_card and save.                                   *)
(***************************************************************************)
C7_HasChangesMonotonic ==
    [][/\ New => ~has_changes'
       /\ datasets' # datasets => has_changes'
       /\ has_changes => has_changes']_vars

\* The flag is still set after a save that followed a change.
C7_Witness ==
    /\ pc = "quit"
    /\ has_changes
    /\ datasets # initial.datasets

(***************************************************************************)
(* C8  total_tasks() is the length of the queue the constructor built, and *)
(* keeps that value across next_card, skip_card and save (retries do not   *)
(* count).                                                                 *)
(***************************************************************************)
C8_TotalDueFixed ==
    pc # "loaded" =>
        /\ TotalTasks = Len(initial.queue)
        /\ TotalTasks = Len(NewQueue(initial.datasets, args.filter_mode,
                                     args.sorted, args.limit,
                                     args.memorization_config,
                                     initial.current_date))

\* A failed item was retried: the queue is as long as at the start, while a
\* card contributes two items to it.
C8_Witness ==
    /\ LastPopped("next_card", FALSE)
    /\ ~last.answer_correct
    /\ Len(queue) = total_due
    /\ total_due > Len(AllVocabs(datasets))

(***************************************************************************)
(* C9  queue.len() <= total_due always, so current_progress() does not     *)
(* underflow; current_progress() never decreases, and it increases only    *)
(* when an item is retired: by a correct graded answer, or by an advance   *)
(* or a skip of a memorization item.                                       *)
(***************************************************************************)
Retires ==
    \/ GradedFront /\ NextCard(TRUE)
    \/ MemorizationFront /\ (SomeNextCard \/ SkipCard)

C9_ProgressMonotonic ==
    [][/\ Len(queue') <= total_due'
       /\ (pc = "review" /\ pc' \in {"review", "quit"}) =>
            /\ CurrentProgress' >= CurrentProgress
            /\ CurrentProgress' > CurrentProgress => Retires]_vars

\* Two items were retired, one of them graded.
C9_Witness ==
    /\ LastPopped("next_card", FALSE)
    /\ last.answer_correct
    /\ CurrentProgress = 2
    /\ queue # <<>>

(***************************************************************************)
(* C10  skip_card on a graded front item is a rotation: the item goes to   *)
(* the back unchanged, the other items keep their order, no metadata and   *)
(* not has_changes change, queue.len() and current_progress() stay.        *)
(***************************************************************************)
C10_SkipRotates ==
    [][(GradedFront /\ SkipCard) =>
          /\ queue' = Tail(queue) \o <<Head(queue)>>
          /\ datasets' = datasets
          /\ has_changes' = has_changes
          /\ Len(queue') = Len(queue)
          /\ CurrentProgress' = CurrentProgress]_vars

\* A graded item was skipped to the back of a queue of three or more items,
\* with no change made so far.
C10_Witness ==
    /\ LastPopped("skip_card", FALSE)
    /\ Len(queue) >= 3
    /\ queue[Len(queue)] = last.item.value
    /\ queue[1] # last.item.value
    /\ ~has_changes

(***************************************************************************)
(* C11  current_task is a pure peek: it changes neither the queue nor any  *)
(* other state of the session, and a second call with no next_card or      *)
(* skip_card in between returns the same task (query, answer, variants and *)
(* show_answer) as the first.                                              *)
(***************************************************************************)
C11_CurrentTaskPure ==
    [][CurrentTask =>
          /\ UNCHANGED <<queue, datasets, has_changes, total_due>>
          /\ shown.is_some => shown'.value.task = shown.value.task]_vars

\* current_task was called twice in a row on a queue that had been rotated,
\* and returned a task.
C11_Witness ==
    /\ shown.is_some
    /\ shown.value.repeated
    /\ shown.value.task.is_some
    /\ shown.value.task = FrontTask(queue, datasets)
    /\ calls >= 1

(***************************************************************************)
(* C17  is_correct returns true iff at least one variant v matches, where  *)
(* v matches when it has fewer than tolerance_min_length characters and    *)
(* the submission equals it, or has at least tolerance_min_length          *)
(* characters and its edit distance to the submission is at most           *)
(* error_tolerance; with no variants it returns false.                     *)
(***************************************************************************)
VariantMatches(v, submitted) ==
    \/ Len(v) < val_config.tolerance_min_length /\ submitted = v
    \/ /\ Len(v) >= val_config.tolerance_min_length
       /\ EditDistance(v, submitted) <= val_config.error_tolerance

ShownVariants == shown.value.task.value.answer_variants

C17_IsCorrectRule ==
    (verdict.is_some /\ shown.is_some) =>
        /\ verdict.value.is_correct =
              (\E k \in 1..Len(ShownVariants) :
                  VariantMatches(ShownVariants[k], verdict.value.answer))
        /\ ~IsCorrect(<<>>, verdict.value.answer, val_config)

(***************************************************************************)
(* C18  When every variant of the target has fewer than                    *)
(* tolerance_min_length characters, is_correct accepts a submission only   *)
(* if it equals one of the variants, whatever error_tolerance is.          *)
(***************************************************************************)
C18_ShortWordsExact ==
    (/\ verdict.is_some
     /\ shown.is_some
     /\ \A k \in 1..Len(ShownVariants) :
           Len(ShownVariants[k]) < val_config.tolerance_min_length
     /\ verdict.value.is_correct) =>
        \E k \in 1..Len(ShownVariants) :
            verdict.value.answer = ShownVariants[k]

(***************************************************************************)
(* Vocabulary of the construction properties                               *)
(***************************************************************************)
\* The constructor has returned and nothing was called on the session since.
Constructed == pc = "review" /\ calls = 0

\* The current date the constructor read.
ConstructedAt == initial.current_date

\* The cards of the session, each by its dataset and card index.
Cards == {<<i, j>> \in (0..Len(datasets) - 1) \X (0..2) :
             j < Len(datasets[i + 1].cards)}

MetadataOf(c) == CardAt(datasets, c[1], c[2]).metadata

DueOf(c, reverse) ==
    IF reverse THEN MetadataOf(c).value.due_date_reverse
               ELSE MetadataOf(c).value.due_date

\* The cards that have an item of any kind in the queue.
QueuedCards == {<<queue[k].dataset, queue[k].card>> : k \in 1..Len(queue)}

\* The queue holds a graded item for the card and the direction.
Graded(c, reverse) ==
    \E k \in 1..Len(queue) :
        /\ queue[k].dataset = c[1]
        /\ queue[k].card = c[2]
        /\ queue[k].reverse = reverse
        /\ ~queue[k].memorization_card

\* The filter table: the row of the mode, the column of the card.
TableDue(c, reverse) ==
    IF MetadataOf(c).is_some
    THEN CASE args.filter_mode = "All" -> TRUE
           [] args.filter_mode = "Unseen" -> FALSE
           [] args.filter_mode = "Seen" -> DueOf(c, reverse) < ConstructedAt
           [] args.filter_mode = "Normal" -> DueOf(c, reverse) < ConstructedAt
    ELSE args.filter_mode \in {"All", "Unseen", "Normal"}

(***************************************************************************)
(* C12  With limit = L the items of the constructed queue refer to at most *)
(* L distinct cards, whatever the filter mode, the sort flag and the       *)
(* memorization policy; a card that is due in neither direction does not   *)
(* count against L, so the queue refers to L cards whenever L or more      *)
(* cards are due.                                                          *)
(***************************************************************************)
C12_LimitBoundsCards ==
    (Constructed /\ args.limit.is_some) =>
        /\ Cardinality(QueuedCards) <= args.limit.value
        /\ Cardinality(QueuedCards) =
              Min(args.limit.value,
                  Cardinality({c \in Cards :
                                  TableDue(c, FALSE) \/ TableDue(c, TRUE)}))

\* Limit 1: the first card is due in neither direction and is passed over,
\* the second card fills the limit with three items, the third is cut off.
C12_Witness ==
    /\ Constructed
    /\ args.limit = Some(1)
    /\ ~TableDue(<<0, 0>>, FALSE) /\ ~TableDue(<<0, 0>>, TRUE)
    /\ TableDue(<<1, 0>>, FALSE)
    /\ QueuedCards = {<<0, 1>>}
    /\ Len(queue) = 3

(***************************************************************************)
(* C13  Under filter mode Seen no item of the constructed queue, graded or *)
(* memorization, refers to a card without metadata; under Unseen no item   *)
(* refers to a card with metadata.                                         *)
(***************************************************************************)
C13_SeenUnseenExclusive ==
    Constructed =>
        /\ args.filter_mode = "Seen" =>
              \A c \in QueuedCards : MetadataOf(c).is_some
        /\ args.filter_mode = "Unseen" =>
              \A c \in QueuedCards : ~MetadataOf(c).is_some

\* Seen with the memorization round enabled: a card without metadata is left
\* out while a card with metadata is queued.
C13_Witness ==
    /\ Constructed
    /\ args.filter_mode = "Seen"
    /\ args.memorization_config.do_memorization_round
    /\ ~args.limit.is_some
    /\ \E c \in Cards : ~MetadataOf(c).is_some
    /\ QueuedCards # {}

C15_DueAtOrBefore ==
    (Constructed /\ args.filter_mode = "Normal" /\ ~args.limit.is_some) =>
        \A c \in Cards : \A reverse \in BOOLEAN :
            (IF MetadataOf(c).is_some THEN DueOf(c, reverse) <= ConstructedAt ELSE TRUE)
                => Graded(c, reverse)

(***************************************************************************)
(* C15  Amended: under Normal and Seen a card with metadata is due for a   *)
(* direction exactly when its due timestamp for that direction is strictly *)
(* before the current time; a card without metadata is due under Normal    *)
(* and not under Seen.                                                     *)
(***************************************************************************)
C15_DueStrictlyBefore ==
    (Constructed /\ args.filter_mode \in {"Normal", "Seen"}
                 /\ ~args.limit.is_some) =>
        \A c \in Cards : \A reverse \in BOOLEAN :
            Graded(c, reverse) <=>
                IF MetadataOf(c).is_some THEN DueOf(c, reverse) < ConstructedAt
                ELSE args.filter_mode = "Normal"

\* Seen: the reverse timestamp of a card equals the construction time, the
\* card is queued forward only, and a card without metadata is not queued.
C15_Witness ==
    /\ Constructed
    /\ args.filter_mode = "Seen"
    /\ ~args.limit.is_some
    /\ \E c \in Cards :
          /\ MetadataOf(c).is_some
          /\ DueOf(c, TRUE) = ConstructedAt
          /\ Graded(c, FALSE)
          /\ ~Graded(c, TRUE)
    /\ \E c \in Cards : ~MetadataOf(c).is_some /\ c \notin QueuedCards

(***************************************************************************)
(* C16  With sorting requested, in each of the three groups of the         *)
(* constructed queue the cards without metadata come before the cards with *)
(* metadata, the cards with metadata are in ascending order of forward due *)
(* timestamp, and cards with equal keys are in dataset-then-load order; so *)
(* the forward items list their cards oldest forward due date first.       *)
(***************************************************************************)
\* Card c is before card d in dataset-then-load order.
LoadedBefore(c, d) == c[1] < d[1] \/ (c[1] = d[1] /\ c[2] < d[2])

\* Card c has to come before card d in the sorted order.
SortsBefore(c, d) ==
    IF ~MetadataOf(c).is_some
    THEN MetadataOf(d).is_some \/ LoadedBefore(c, d)
    ELSE /\ MetadataOf(d).is_some
         /\ \/ DueOf(c, FALSE) < DueOf(d, FALSE)
            \/ DueOf(c, FALSE) = DueOf(d, FALSE) /\ LoadedBefore(c, d)

SameGroup(a, b) ==
    a.memorization_card = b.memorization_card /\ a.reverse = b.reverse

C16_SortedStable ==
    (Constructed /\ args.sorted) =>
        \A k \in 1..Len(queue) : \A l \in 1..Len(queue) :
            (k < l /\ SameGroup(queue[k], queue[l])) =>
                SortsBefore(<<queue[k].dataset, queue[k].card>>,
                            <<queue[l].dataset, queue[l].card>>)

\* The three forward items: the card of the second dataset first, as its
\* forward timestamp is the oldest, then the two cards of the first dataset,
\* whose timestamps are equal, in load order.
C16_Witness ==
    /\ Constructed
    /\ args.sorted
    /\ Len(queue) = 6
    /\ <<queue[1].dataset, queue[1].card>> = <<1, 0>>
    /\ <<queue[2].dataset, queue[2].card>> = <<0, 0>>
    /\ <<queue[3].dataset, queue[3].card>> = <<0, 1>>
    /\ \A c \in Cards : MetadataOf(c).is_some
    /\ DueOf(<<0, 0>>, FALSE) = DueOf(<<0, 1>>, FALSE)
    /\ DueOf(<<1, 0>>, FALSE) < DueOf(<<0, 0>>, FALSE)

(***************************************************************************)
(* C19  Load/save round trip: after loading, no operation that changes     *)
(* metadata, and a save, every card that had metadata is written with the  *)
(* six fields it was loaded from and every card without metadata with its  *)
(* two word fields, in load order.                                         *)
(***************************************************************************)
\* The fields from_line reads of a line.
LoadedFields(line) ==
    IF Len(line) >= 3 THEN SubSeq(line, 1, 6) ELSE SubSeq(line, 1, 2)

C19_RoundTrip ==
    (pc = "quit" /\ last.op = "save_ok" /\ ~has_changes) =>
        \A k \in 1..Len(files) :
            /\ Len(files[k]) = Len(initial.files[k])
            /\ \A n \in 2..Len(files[k]) :
                  files[k][n] = LoadedFields(initial.files[k][n])

(***************************************************************************)
(* C20  save rewrites the file of every dataset in dataset order, changed  *)
(* or not; when the write of dataset k fails the error is returned at      *)
(* once, the files of the datasets before k stay as written, the files of  *)
(* the datasets after k are not touched, and the session (queue, metadata, *)
(* has_changes, total_due) is as before the call.                          *)
(***************************************************************************)
C20_SaveInOrder ==
    [][Save =>
          /\ UNCHANGED <<queue, datasets, has_changes, total_due>>
          /\ last'.op = "save_ok" =>
                \A k \in 1..Len(datasets) : files'[k] = FileLines(datasets[k])
          /\ last'.op = "save_err" =>
                \E failed \in 1..Len(datasets) :
                    /\ \A k \in 1..failed - 1 :
                          files'[k] = FileLines(datasets[k])
                    /\ \A k \in failed + 1..Len(datasets) :
                          files'[k] = files[k]]_vars

\* A save after a change failed at the second dataset: the file of the first
\* is rewritten with the change, the file of the second is cut after its
\* header, and the session still holds the change.
C20_Witness ==
    /\ pc = "quit"
    /\ last.op = "save_err"
    /\ has_changes
    /\ datasets # initial.datasets
    /\ files[1] = FileLines(datasets[1])
    /\ files[1] # initial.files[1]
    /\ Len(initial.files[2]) = 2
    /\ files[2] = <<initial.files[2][1]>>

(***************************************************************************)
(* Vocabulary of the loading properties                                    *)
(***************************************************************************)
\* from_files has returned.
Loaded == pc \in {"review", "load_failed"} /\ load.is_some

\* The path and the error from_file gives for the k-th file.
PathOf(k) == FilePaths[k]

\* A decimal number that fits 8 bits; a text that names a second.
IsDeckText(t) ==
    /\ t # <<>>
    /\ \A n \in 1..Len(t) : t[n] \in 0..9
    /\ DigitsValue(t) <= 255

IsTimestampText(t) == "seconds" \in DOMAIN t

\* A blank line: nothing but white space between its tabs.
Blank(line) == \A n \in 1..Len(line) : \A m \in 1..Len(line[n]) : line[n][m] = " "

(***************************************************************************)
(* C21  from_files is all-or-nothing: when a file fails to load it returns *)
(* the error of the first failing path in argument order, does not load    *)
(* the paths behind it, and produces no session; when every file loads,    *)
(* the session holds one dataset per path.                                 *)
(***************************************************************************)
C21_AllOrNothing ==
    [][FromFiles =>
         LET Failing == {k \in 1..Len(files) :
                            ~FromFile(PathOf(k), files[k]).is_ok}
         IN IF Failing = {}
            THEN /\ pc' = "review"
                 /\ load'.value.error = None
                 /\ Len(datasets') = Len(files)
            ELSE /\ pc' = "load_failed"
                 /\ load'.value.error =
                       Some(FromFile(PathOf(SetMin(Failing)),
                                     files[SetMin(Failing)]).error)
                 /\ load'.value.opened = SetMin(Failing)
                 /\ queue' = <<>>
                 /\ datasets' = <<>>
                 /\ total_due' = 0]_vars

\* Both files fail to load, each in its own way: the error is the one of the
\* first file and the second file was not opened.
C21_Witness ==
    /\ pc = "load_failed"
    /\ load.value.opened = 1
    /\ load.value.error.value.filename = PathOf(1)
    /\ load.value.error.value.kind = "InvalidFormat"
    /\ files[2] = <<>>
    /\ queue = <<>>

(***************************************************************************)
(* C22  from_file takes the first line that is not blank as the header     *)
(* (blank lines before it are skipped) and its first two fields as the     *)
(* language names; it fails with a format error when the header has fewer  *)
(* than two fields, and with EmptyFile when the file has no lines.         *)
(***************************************************************************)
\* The position of the header the claim describes (0: every line is blank).
HeaderAt(lines) ==
    IF \A p \in 1..Len(lines) : Blank(lines[p]) THEN 0
    ELSE SetMin({p \in 1..Len(lines) : ~Blank(lines[p])})

\* The k-th file was opened and did not load, resp. loaded.
FailedAt(k) == load.value.error.is_some /\ load.value.opened = k

LoadedAt(k) == pc = "review" /\ k <= Len(datasets)

C22_HeaderFirstNonEmpty ==
    Loaded =>
        \A k \in 1..load.value.opened :
            IF files[k] = <<>>
            THEN /\ FailedAt(k)
                 /\ load.value.error.value = EmptyFile(PathOf(k))
            ELSE IF HeaderAt(files[k]) = 0 THEN TRUE
            ELSE IF Len(files[k][HeaderAt(files[k])]) < 2
            THEN /\ FailedAt(k)
                 /\ load.value.error.value.kind = "InvalidFormat"
                 /\ load.value.error.value.line = HeaderAt(files[k])
            ELSE /\ FailedAt(k) =>
                    load.value.error.value.line > HeaderAt(files[k])
                 /\ LoadedAt(k) =>
                    /\ datasets[k].lang_a = files[k][HeaderAt(files[k])][1]
                    /\ datasets[k].lang_b = files[k][HeaderAt(files[k])][2]

(***************************************************************************)
(* C23  The metadata of a data line is all-or-nothing: a line of two       *)
(* fields gives a card without metadata; a line with a third field gives a *)
(* card with metadata when fields 3 to 6 are all present and valid, and    *)
(* else the load fails with a format error that carries the file name, a   *)
(* reason and the 1-based position of the line in the file, blank lines    *)
(* counted.                                                                *)
(***************************************************************************)
LineAccepted(line) ==
    /\ Len(line) >= 2
    /\ Len(line) >= 3 =>
          /\ Len(line) >= 6
          /\ IsDeckText(line[3]) /\ IsTimestampText(line[4])
          /\ IsDeckText(line[5]) /\ IsTimestampText(line[6])

\* The positions of the data lines of a file, resp. of those to be rejected.
DataLines(lines) == {p \in 2..Len(lines) : ~Blank(lines[p])}

RejectedLines(lines) == {p \in DataLines(lines) : ~LineAccepted(lines[p])}

\* The number of data lines up to position p: the index of the card of line p.
CardNumber(lines, p) == Cardinality({q \in DataLines(lines) : q <= p})

LineReasons ==
    {"Missing word A", "Missing word B", "Missing deck", "Missing due date",
     "Invalid due date", "Invalid deck"}

\* The file has its header in its first line.
HeaderFirst(lines) == lines # <<>> /\ Len(lines[1]) >= 2

C23_MetadataAllOrNothing ==
    Loaded =>
        \A k \in 1..load.value.opened :
            HeaderFirst(files[k]) =>
                IF RejectedLines(files[k]) # {}
                THEN /\ FailedAt(k)
                     /\ load.value.error.value.kind = "InvalidFormat"
                     /\ load.value.error.value.filename = PathOf(k)
                     /\ load.value.error.value.line =
                           SetMin(RejectedLines(files[k]))
                     /\ load.value.error.value.reason \in LineReasons
                ELSE /\ ~FailedAt(k)
                     /\ LoadedAt(k) =>
                        /\ Len(datasets[k].cards) = Cardinality(DataLines(files[k]))
                        /\ \A p \in DataLines(files[k]) :
                          LET line == files[k][p]
                              card == datasets[k].cards[CardNumber(files[k], p)]
                          IN IF Len(line) = 2
                             THEN card.metadata = None
                             ELSE card.metadata =
                                    Some(VocabMetadata(
                                        DigitsValue(line[3]),
                                        line[4].seconds * TicksPerSecond,
                                        DigitsValue(line[5]),
                                        line[6].seconds * TicksPerSecond))

\* The second file is rejected at its fourth line, which lies behind a card
\* and a blank line, for a timestamp that cannot be read; the first file
\* loaded with a card of each kind.
C23_Witness ==
    /\ pc = "load_failed"
    /\ load.value.opened = 2
    /\ load.value.error.value =
          InvalidFormat(PathOf(2), 4, "Invalid due date")
    /\ Blank(files[2][3])
    /\ files[1] = <<LoadHeader, LoadCard, LoadSeenCard>>

(***************************************************************************)
(* C26  from_str gives a variant list that starts with the verbatim base;  *)
(* when the base holds a comma, its comma-separated segments follow,       *)
(* trimmed and in order; then, for every variant so far that holds a       *)
(* parenthesized segment, that variant with the segment removed and the    *)
(* rest trimmed follows.                                                   *)
(***************************************************************************)
\* The text holds a "(" with a ")" somewhere behind it.
HasGroup(v) ==
    \E i \in 1..Len(v) : \E j \in 1..Len(v) : i < j /\ v[i] = "(" /\ v[j] = ")"

\* The parentheses of the text pair up one group after the other: every "("
\* is closed before the next one opens, and no ")" stands alone.
RECURSIVE Paired(_, _)
Paired(v, open) ==
    IF v = <<>> THEN ~open
    ELSE IF Head(v) = "(" THEN ~open /\ Paired(Tail(v), TRUE)
    ELSE IF Head(v) = ")" THEN open /\ Paired(Tail(v), FALSE)
    ELSE Paired(Tail(v), open)

\* The text without its parenthesized segments.
RECURSIVE WithoutGroups(_, _)
WithoutGroups(v, open) ==
    IF v = <<>> THEN <<>>
    ELSE IF Head(v) = "(" THEN WithoutGroups(Tail(v), TRUE)
    ELSE IF Head(v) = ")" THEN WithoutGroups(Tail(v), FALSE)
    ELSE (IF open THEN <<>> ELSE <<Head(v)>>) \o WithoutGroups(Tail(v), open)

\* The base and, when it holds a comma, its trimmed segments.
CommaVariants(base) ==
    IF Positions(base, ",") # {}
    THEN <<base>> \o
         [n \in 1..Len(Split(base, ",")) |-> Trim(Split(base, ",")[n])]
    ELSE <<base>>

RECURSIVE GroupVariants(_)
GroupVariants(variants) ==
    IF variants = <<>> THEN <<>>
    ELSE (IF HasGroup(Head(variants))
          THEN <<Trim(WithoutGroups(Head(variants), FALSE))>>
          ELSE <<>>)
         \o GroupVariants(Tail(variants))

\* Words on whose parenthesized segments there is no doubt: in each variant
\* the parentheses pair up, or there is no segment at all.
PlainGroups(base) ==
    \A n \in 1..Len(CommaVariants(base)) :
        Paired(CommaVariants(base)[n], FALSE) \/ ~HasGroup(CommaVariants(base)[n])

\* The word the file holds and the word the session holds for it.
WordText == files[1][2][1]

WordLoaded == datasets[1].cards[1].word_a

C26_Variants ==
    (pc = "review" /\ PlainGroups(WordText)) =>
        /\ WordLoaded.base = WordText
        /\ WordLoaded.variants =
              CommaVariants(WordText) \o GroupVariants(CommaVariants(WordText))

(***************************************************************************)
(* C27  parse_complex_duration accepts exactly the texts that are a        *)
(* sequence, possibly empty, of groups of one or more decimal digits and   *)
(* one unit letter d, h, m or s, and returns the sum of the durations of   *)
(* the groups; a unit without digits before it, digits without a unit      *)
(* behind them and an unknown unit letter are rejected.                    *)
(***************************************************************************)
\* The length of the run of digits the text starts with.
RECURSIVE DigitRun(_)
DigitRun(text) ==
    IF text # <<>> /\ Head(text) \in DigitChars THEN 1 + DigitRun(Tail(text))
    ELSE 0

\* The text is a sequence of groups: digits, then a unit letter.
RECURSIVE IsGroups(_)
IsGroups(text) ==
    \/ text = <<>>
    \/ /\ DigitRun(text) >= 1
       /\ DigitRun(text) < Len(text)
       /\ text[DigitRun(text) + 1] \in {"d", "h", "m", "s"}
       /\ IsGroups(SubSeq(text, DigitRun(text) + 2, Len(text)))

\* The number fits 32 bits: behind its leading zeros it has fewer than ten
\* digits, or ten digits that do not exceed 4294967295.
Below32Bits(number) ==
    \/ Len(StripZeros(number)) <= 9
    \/ Len(StripZeros(number)) = 10 /\ ~ExceedsU32Max(StripZeros(number), 1)

RECURSIVE GroupsBelow32Bits(_)
GroupsBelow32Bits(text) ==
    \/ text = <<>>
    \/ /\ Below32Bits(SubSeq(text, 1, DigitRun(text)))
       /\ GroupsBelow32Bits(SubSeq(text, DigitRun(text) + 2, Len(text)))

SecondsOf(unit) ==
    CASE unit = "d" -> 86400 [] unit = "h" -> 3600
      [] unit = "m" -> 60    [] unit = "s" -> 1

\* The sum of the durations of the groups, in ticks.
RECURSIVE GroupsSum(_)
GroupsSum(text) ==
    IF text = <<>> THEN 0
    ELSE NumberValue(SubSeq(text, 1, DigitRun(text)))
           * SecondsOf(text[DigitRun(text) + 1]) * TicksPerSecond
         + GroupsSum(SubSeq(text, DigitRun(text) + 2, Len(text)))

\* The configuration was read: the text of its last entry, whether that
\* entry was accepted, and the duration it was given.
ConfigRead == pc \in {"start", "config_failed"}

LastEntry == deck_config.deck_intervals[Len(deck_config.deck_intervals)]

ComplexRead ==
    /\ ConfigRead
    /\ LastEntry.kind = "Complex"
    /\ \A k \in 1..(Len(deck_config.deck_intervals) - 1) :
          deck_config.deck_intervals[k].kind = "Days"

Accepted == pc = "start"

MinInstant == UNIX_EPOCH - 2 * TicksPerSecond

\* from_files has just built the session.
Restarted == pc = "review" /\ last.op = "from_files"

\* The cards of the session that hold default metadata.
DefaultCards == {c \in Cards : MetadataOf(c) = Some(DefaultMetadata)}

MemorizationItems(q, c) ==
    {k \in 1..Len(q) :
        q[k].memorization_card /\ q[k].dataset = c[1] /\ q[k].card = c[2]}

\* The memorization items of a queue, in order.
RECURSIVE MemorizationPart(_)
MemorizationPart(q) ==
    IF q = <<>> THEN <<>>
    ELSE (IF Head(q).memorization_card THEN <<Head(q)>> ELSE <<>>)
         \o MemorizationPart(Tail(q))

CardsOf(ds) ==
    {<<i, j>> \in (0..Len(ds) - 1) \X (0..2) : j < Len(ds[i + 1].cards)}

C25_ExposureOnce ==
    [][/\ \A c \in CardsOf(datasets') :
             Cardinality(MemorizationItems(queue', c)) <= 1
       /\ (SomeNextCard \/ SkipCard) /\ Returns =>
             /\ MemorizationPart(queue') =
                   MemorizationPart(IF queue = <<>> THEN queue ELSE Tail(queue))
             /\ MemorizationFront =>
                   CardAt(datasets', Head(queue).dataset,
                          Head(queue).card).metadata.is_some
       /\ (FromFiles /\ pc = "quit" /\ last.op = "save_ok") =>
             /\ Returns
             /\ \A c \in CardsOf(datasets) :
                   CardAt(datasets, c[1], c[2]).metadata.is_some =>
                       MemorizationItems(queue', c) = {}]_vars

\* A session with the memorization round on, constructed from a file saved
\* after the first card was exposed: only the other card, still new, has a
\* memorization item; the first card is queued for graded review.
C25_Witness ==
    /\ Restarted
    /\ calls > 0
    /\ args.memorization_config.do_memorization_round
    /\ args.filter_mode = "Normal"
    /\ Cards = {<<0, 0>>, <<0, 1>>}
    /\ MetadataOf(<<0, 0>>).is_some
    /\ MetadataOf(<<0, 1>>) = None
    /\ MemorizationItems(queue, <<0, 0>>) = {}
    /\ MemorizationItems(queue, <<0, 1>>) = {1}
    /\ Graded(<<0, 0>>, FALSE)

(***************************************************************************)
(* C28  A graded next_card at time now, with current deck c for the        *)
(* direction of the item (0 for a card without metadata) and a ladder of   *)
(* N intervals, sets the deck of that direction to min(c + 1, N - 1) when  *)
(* the answer is correct and to max(c - 1, 0) when it is not, sets the due *)
(* timestamp of that direction to now + interval[new deck], and sets       *)
(* has_changes.                                                            *)
(***************************************************************************)
\* The deck and the due date a card holds for a direction.
DeckIn(card, reverse) ==
    IF reverse THEN card.metadata.value.deck_reverse
               ELSE card.metadata.value.deck

DueIn(card, reverse) ==
    IF reverse THEN card.metadata.value.due_date_reverse
               ELSE card.metadata.value.due_date

\* The current deck of the front item and the deck the claim gives it.
FrontCard(ds) == CardAt(ds, Head(queue).dataset, Head(queue).card)

FrontDeck ==
    IF FrontCard(datasets).metadata.is_some
    THEN DeckIn(FrontCard(datasets), Head(queue).reverse)
    ELSE 0

ClaimedDeck(answer_correct) ==
    IF answer_correct
    THEN (IF FrontDeck + 1 <= Len(deck_intervals) - 1
          THEN FrontDeck + 1 ELSE Len(deck_intervals) - 1)
    ELSE (IF FrontDeck - 1 >= 0 THEN FrontDeck - 1 ELSE 0)

C28_GradedUpdate ==
    [][\A answer_correct \in BOOLEAN :
         (GradedFront /\ NextCard(answer_correct) /\ Returns) =>
            /\ FrontCard(datasets').metadata.is_some
            /\ DeckIn(FrontCard(datasets'), Head(queue).reverse)
                  = ClaimedDeck(answer_correct)
            /\ DueIn(FrontCard(datasets'), Head(queue).reverse)
                  = now + deck_intervals[ClaimedDeck(answer_correct) + 1]
            /\ has_changes']_vars

(***************************************************************************)
(* C29  After next_card(false) on a graded front item that item (dataset,  *)
(* card and direction) is the last item of the queue and the other items   *)
(* keep their order, so every item that was behind it is at the front      *)
(* before it is; after next_card(true) the item is in the queue no more.   *)
(***************************************************************************)
C29_RetryAtBack ==
    [][/\ (GradedFront /\ NextCard(FALSE) /\ Returns) =>
             /\ queue'[Len(queue')] = Head(queue)
             /\ SubSeq(queue', 1, Len(queue') - 1) = Tail(queue)
       /\ (GradedFront /\ NextCard(TRUE) /\ Returns) =>
             /\ queue' = Tail(queue)
             /\ \A k \in 1..Len(queue') : queue'[k] # Head(queue)]_vars

\* Two incorrect answers in a row on a queue of three or more items: the
\* item failed first is now second last, the one failed last is last.
C29_Witness ==
    /\ LastPopped("next_card", FALSE)
    /\ ~last.answer_correct
    /\ calls = 2
    /\ Len(queue) >= 3
    /\ Len(queue) = total_due
    /\ queue[Len(queue)] = last.item.value
    /\ queue[Len(queue) - 1] = Head(initial.queue)
    /\ queue[Len(queue) - 1] # last.item.value

(***************************************************************************)
(* C30  On a memorization front item the answer does not influence the     *)
(* outcome: from the same state next_card(true), next_card(false) and      *)
(* skip_card lead to the same queue, the same metadata of every card, the  *)
(* same has_changes and the same progress.                                 *)
(***************************************************************************)
\* What the state alone determines: the queue without its front item, the
\* front card seen, the session changed, one more item done.
MemorizationOutcome ==
    <<Tail(queue),
      [datasets EXCEPT ![Head(queue).dataset + 1].cards[Head(queue).card + 1].metadata
                          = Some(VocabMetadata(0, UNIX_EPOCH, 0, UNIX_EPOCH))],
      TRUE,
      CurrentProgress + 1,
      "review">>

C30_AnswerIgnored ==
    [][(MemorizationFront /\ (SomeNextCard \/ SkipCard)) =>
          <<queue', datasets', has_changes', CurrentProgress', pc'>>
             = MemorizationOutcome]_vars

\* An incorrect answer was given on a memorization item: the card is seen,
\* the item is gone and counts as done.
C30_Witness ==
    /\ LastPopped("next_card", TRUE)
    /\ ~last.answer_correct
    /\ ItemDeck(last.item.value) = Some(0)
    /\ last.item.value \notin {queue[k] : k \in 1..Len(queue)}
    /\ has_changes
    /\ CurrentProgress >= 1

(***************************************************************************)
(* C31  current_task returns nothing iff the queue is empty; for a forward *)
(* front item the query is the base of word_a and the answer and its       *)
(* variants are those of word_b, for a reverse item the other way round;   *)
(* show_answer is the memorization flag of the item; current_target_lang   *)
(* returns the language of the answer side.                                *)
(***************************************************************************)
C31_TaskOfFront ==
    pc = "review" =>
        /\ shown.is_some =>
              /\ ~shown.value.task.is_some <=> queue = <<>>
              /\ queue # <<>> =>
                    LET item == Head(queue)
                        card == CardAt(datasets, item.dataset, item.card)
                        asked == IF item.reverse THEN card.word_b ELSE card.word_a
                        wanted == IF item.reverse THEN card.word_a ELSE card.word_b
                        task == shown.value.task.value
                    IN /\ task.query = asked.base
                       /\ task.answer = wanted.base
                       /\ task.answer_variants = wanted.variants
                       /\ task.show_answer = item.memorization_card
        /\ CurrentTargetLang(queue, datasets).is_some <=> queue # <<>>
        /\ queue # <<>> =>
              CurrentTargetLang(queue, datasets).value =
                 IF Head(queue).reverse
                 THEN datasets[Head(queue).dataset + 1].lang_a
                 ELSE datasets[Head(queue).dataset + 1].lang_b

\* current_task was called on a reverse graded item: the word asked is the
\* one of the second column, the language to answer in the first one.
C31_Witness ==
    /\ pc = "review"
    /\ shown.is_some
    /\ queue # <<>>
    /\ Head(queue).reverse
    /\ ~Head(queue).memorization_card
    /\ shown.value.task.value.query = <<"b", "b">>
    /\ shown.value.task.value.answer_variants = <<(<<"y">>)>>
    /\ ~shown.value.task.value.show_answer
    /\ CurrentTargetLang(queue, datasets) = Some("en")

(***************************************************************************)
(* C32  At construction a card gets a memorization item iff it has no      *)
(* metadata, the memorization policy is enabled and it is due in at least  *)
(* one direction; the direction of the item is the reversed flag of the    *)
(* policy; with the policy disabled no item of the queue has show_answer   *)
(* set; each card contributes at most one memorization, one forward and    *)
(* one reverse item.                                                       *)
(***************************************************************************)
\* The positions of the items of a kind the queue holds for a card.
ItemsOf(c, reverse, memorization_card) ==
    {k \in 1..Len(queue) :
        /\ queue[k].dataset = c[1]
        /\ queue[k].card = c[2]
        /\ queue[k].reverse = reverse
        /\ queue[k].memorization_card = memorization_card}

Memorized(c) == \E reverse \in BOOLEAN : ItemsOf(c, reverse, TRUE) # {}

PolicyEnabled == args.memorization_config.do_memorization_round

\* What the claim says besides the condition of the memorization item.
MemorizationShape ==
    /\ \A c \in Cards :
          /\ ItemsOf(c, ~args.memorization_config.memorization_reversed, TRUE) = {}
          /\ Cardinality(ItemsOf(c, TRUE, TRUE) \cup ItemsOf(c, FALSE, TRUE)) <= 1
          /\ Cardinality(ItemsOf(c, FALSE, FALSE)) <= 1
          /\ Cardinality(ItemsOf(c, TRUE, FALSE)) <= 1
    /\ ~PolicyEnabled => \A k \in 1..Len(queue) : ~queue[k].memorization_card

\* The statement as made: every new card that is due is memorized.
C32_MemorizationIffDue ==
    Constructed =>
        /\ \A c \in Cards :
              Memorized(c) <=>
                 /\ ~MetadataOf(c).is_some
                 /\ PolicyEnabled
                 /\ TableDue(c, FALSE) \/ TableDue(c, TRUE)
        /\ MemorizationShape

\* The statement that holds: every new card that is due and that the limit
\* admits, which is to say every new card with a graded item, is memorized.
C32_MemorizationIffQueued ==
    Constructed =>
        /\ \A c \in Cards :
              /\ Memorized(c) <=>
                    /\ ~MetadataOf(c).is_some
                    /\ PolicyEnabled
                    /\ Graded(c, FALSE) \/ Graded(c, TRUE)
              /\ Memorized(c) => TableDue(c, FALSE) \/ TableDue(c, TRUE)
              /\ ~args.limit.is_some =>
                    (Memorized(c) <=>
                        /\ ~MetadataOf(c).is_some
                        /\ PolicyEnabled
                        /\ TableDue(c, FALSE) \/ TableDue(c, TRUE))
        /\ MemorizationShape

\* Limit 1 under Normal with the reversed policy: the first two cards are
\* new and due, the first one is memorized in reverse, the second one is
\* cut off by the limit.
C32_Witness ==
    /\ Constructed
    /\ args.filter_mode = "Normal"
    /\ args.limit = Some(1)
    /\ ~args.sorted
    /\ ~MetadataOf(<<0, 0>>).is_some
    /\ ~MetadataOf(<<0, 1>>).is_some
    /\ queue = <<VocabItem(0, 0, TRUE, TRUE), VocabItem(0, 0, FALSE, FALSE),
                 VocabItem(0, 0, TRUE, FALSE)>>

(***************************************************************************)
(* C33  The constructed queue is the memorization items, then the forward  *)
(* items, then the reverse items; inside each of the three groups the      *)
(* cards are in iteration order, which without sorting is the order of the *)
(* datasets and, inside a dataset, the order of loading.                   *)
(***************************************************************************)
\* The group of an item: memorization, forward, reverse.
GroupRank(item) ==
    IF item.memorization_card THEN 0 ELSE IF ~item.reverse THEN 1 ELSE 2

CardOfItem(item) == <<item.dataset, item.card>>

C33_ThreeGroupsInOrder ==
    Constructed =>
        \A k \in 1..Len(queue) : \A l \in 1..Len(queue) :
            k < l =>
                /\ GroupRank(queue[k]) <= GroupRank(queue[l])
                /\ GroupRank(queue[k]) = GroupRank(queue[l]) =>
                      IF args.sorted
                      THEN SortsBefore(CardOfItem(queue[k]), CardOfItem(queue[l]))
                      ELSE LoadedBefore(CardOfItem(queue[k]), CardOfItem(queue[l]))

\* No sorting, no limit, the reversed policy: two new cards, one of each
\* dataset, are memorized in reverse ahead of the forward items of all three
\* cards, and these ahead of the reverse items.
C33_Witness ==
    /\ Constructed
    /\ ~args.sorted
    /\ ~args.limit.is_some
    /\ Len(queue) = 8
    /\ queue[1] = VocabItem(0, 0, TRUE, TRUE)
    /\ queue[2] = VocabItem(1, 0, TRUE, TRUE)
    /\ queue[3] = VocabItem(0, 0, FALSE, FALSE)
    /\ queue[4] = VocabItem(0, 1, FALSE, FALSE)
    /\ queue[5] = VocabItem(1, 0, FALSE, FALSE)
    /\ queue[6] = VocabItem(0, 0, TRUE, FALSE)
    /\ queue[8] = VocabItem(1, 0, TRUE, FALSE)
    /\ MetadataOf(<<0, 1>>).is_some

(***************************************************************************)
(* C34  On an empty queue next_card, with either answer, and skip_card are *)
(* no-ops: the queue stays empty, no metadata changes, has_changes keeps   *)
(* its value and current_progress() stays total_due; no operation on the   *)
(* session adds an item to an empty queue.                                 *)
(***************************************************************************)
C34_EmptyQueueNoOp ==
    [][(pc = "review" /\ queue = <<>>) =>
          /\ queue' = <<>>
          /\ (SomeNextCard \/ SkipCard) =>
                /\ datasets' = datasets
                /\ has_changes' = has_changes
                /\ CurrentProgress = total_due
                /\ CurrentProgress' = total_due'
                /\ total_due' = total_due
                /\ pc' = "review"]_vars

\* The two items of the session were answered correctly, and next_card was
\* called once more on the empty queue: nothing moved.
C34_Witness ==
    /\ pc = "review"
    /\ queue = <<>>
    /\ last.op = "next_card"
    /\ last.item = NoItem
    /\ calls = 3
    /\ has_changes
    /\ total_due = 2
    /\ CurrentProgress = total_due

(***************************************************************************)
(* C35  A graded next_card changes only the deck and the due timestamp of  *)
(* the direction of the item on the card of the item: the other direction  *)
(* keeps its deck and due timestamp (deck 0 and the default due timestamp  *)
(* when the card had no metadata), the metadata of every other card is     *)
(* unchanged; and no operation changes the words of a card, the number of  *)
(* cards of a dataset, its language names or its file path.                *)
(***************************************************************************)
\* A dataset and a card without what scheduling may change.
DatasetFrame(dataset) ==
    <<dataset.file_path, dataset.lang_a, dataset.lang_b, Len(dataset.cards),
      [j \in 1..Len(dataset.cards) |->
          <<dataset.cards[j].word_a, dataset.cards[j].word_b>>]>>

SessionFrame(ds) == [i \in 1..Len(ds) |-> DatasetFrame(ds[i])]

C35_GradedFrame ==
    [][/\ \A answer_correct \in BOOLEAN :
            (GradedFront /\ NextCard(answer_correct) /\ Returns) =>
               LET item == Head(queue)
                   old == FrontCard(datasets)
                   new == FrontCard(datasets')
               IN /\ IF old.metadata.is_some
                     THEN /\ DeckIn(new, ~item.reverse) = DeckIn(old, ~item.reverse)
                          /\ DueIn(new, ~item.reverse) = DueIn(old, ~item.reverse)
                     ELSE /\ DeckIn(new, ~item.reverse) = 0
                          /\ DueIn(new, ~item.reverse) = UNIX_EPOCH
                  /\ \A c \in CardsOf(datasets) :
                        c # CardOfItem(item) =>
                           CardAt(datasets', c[1], c[2]) = CardAt(datasets, c[1], c[2])
       /\ SessionFrame(datasets') = SessionFrame(datasets)]_vars

\* A correct answer on the reverse item of a card that had no metadata: the
\* forward direction holds deck 0 and the default due timestamp, while the
\* card of the other dataset still holds what the file gave it.
C35_Witness ==
    /\ LastPopped("next_card", FALSE)
    /\ last.answer_correct
    /\ last.item.value.reverse
    /\ ~CardAt(initial.datasets, last.item.value.dataset,
               last.item.value.card).metadata.is_some
    /\ LET card == CardAt(datasets, last.item.value.dataset, last.item.value.card)
       IN /\ card.metadata.value.deck = 0
          /\ card.metadata.value.due_date = UNIX_EPOCH
          /\ card.metadata.value.deck_reverse = 1
          /\ card.metadata.value.due_date_reverse > now
    /\ \E c \in Cards : MetadataOf(c).is_some /\ c # CardOfItem(last.item.value)

(***************************************************************************)
(* C36  The deck arithmetic of next_card is the mathematical formula for   *)
(* every current deck c in 0..255 and every ladder length N >= 1, N > 255  *)
(* included: a correct answer yields min(c + 1, N - 1), an incorrect one   *)
(* max(c - 1, 0), with no overflow, underflow or truncation in 8 bits.     *)
(***************************************************************************)
C36_DeckArithmetic ==
    [][\A answer_correct \in BOOLEAN :
         (GradedFront /\ NextCard(answer_correct)) =>
            /\ ~(answer_correct /\ CorrectOverflows(FrontDeck, Len(deck_intervals)))
            /\ AsU8(Len(deck_intervals)) = Len(deck_intervals)
            /\ NewDeck(answer_correct, FrontDeck, Len(deck_intervals))
                  = ClaimedDeck(answer_correct)]_vars

(***************************************************************************)
(* C39  A correct graded answer never lowers the deck of a direction and   *)
(* an incorrect one never raises it, for every deck a card can hold after  *)
(* loading and every ladder length N >= 1; a graded answer changes the     *)
(* deck by at most one.                                                    *)
(***************************************************************************)
C39_DeckStepsByOne ==
    [][\A answer_correct \in BOOLEAN :
         (GradedFront /\ NextCard(answer_correct) /\ Returns) =>
            LET c == FrontDeck
                d == DeckIn(FrontCard(datasets'), Head(queue).reverse)
            IN /\ answer_correct => d >= c
               /\ ~answer_correct => d <= c
               /\ d - c \in {-1, 0, 1}]_vars

(***************************************************************************)
(* C37  The review pass terminates: a next_card(true), and an advance or a *)
(* skip of a memorization item, shortens the queue by one item and no call *)
(* lengthens it; when every item that reaches the front is eventually      *)
(* answered correctly the queue becomes empty, current_task returns        *)
(* nothing and current_progress() equals total_due.                        *)
(***************************************************************************)
PassDone ==
    /\ pc = "review"
    /\ queue = <<>>
    /\ ~FrontTask(queue, datasets).is_some
    /\ CurrentProgress = total_due

Shortens ==
    \/ NextCard(TRUE)
    \/ MemorizationFront /\ (NextCard(FALSE) \/ SkipCard)

C37_QueueShrinks ==
    [][pc = "review" =>
         /\ Len(queue') <= Len(queue)
         /\ (queue # <<>> /\ Shortens) => Len(queue') = Len(queue) - 1]_vars

C37_PassTerminates == C37_QueueShrinks /\ ((pc = "review") ~> PassDone)

(***************************************************************************)
(* C38  The change flag is sound: in every reachable state of a session    *)
(* where has_changes is false the metadata of every card (its presence,    *)
(* both deck indices, both due timestamps) is what it was when the session *)
(* was constructed.                                                        *)
(***************************************************************************)
SessionExists == pc \in {"review", "quit", "panicked"}

MetadataAsConstructed ==
    /\ Len(datasets) = Len(initial.datasets)
    /\ \A k \in 1..Len(datasets) :
         /\ Len(datasets[k].cards) = Len(initial.datasets[k].cards)
         /\ \A j \in 1..Len(datasets[k].cards) :
              datasets[k].cards[j].metadata
                 = initial.datasets[k].cards[j].metadata

C38_UnflaggedUnchanged ==
    (SessionExists /\ ~has_changes) => MetadataAsConstructed

\* Two calls were made, the last of them a skip of a graded item, and the
\* session is still unflagged.
C38_Witness ==
    /\ pc = "review"
    /\ ~has_changes
    /\ calls = 2
    /\ LastPopped("skip_card", FALSE)
    /\ MetadataAsConstructed

(***************************************************************************)
(* C40  A memorization exposure never destroys scheduling progress: in     *)
(* every reachable state where a memorization item is at the front of the  *)
(* queue, the card it refers to has no metadata, so the default metadata   *)
(* the exposure stores overwrites no deck index and no due timestamp.      *)
(***************************************************************************)
C40_MemorizationFrontIsNew ==
    (pc = "review" /\ MemorizationFront) =>
        /\ ValidIndex(datasets, Head(queue))
        /\ ~FrontCard(datasets).metadata.is_some

\* A memorization item is at the front after another one was exposed.
C40_Witness ==
    /\ MemorizationFront
    /\ LastPopped("next_card", TRUE)
    /\ ~FrontCard(datasets).metadata.is_some
    /\ has_changes

====
